---- MODULE Spec2Model ----
(***************************************************************************)
(* A model of AnomalyDetectionEngine (ai_automation/src/                   *)
(* anomaly_detection.py): the engine's fields, its three persisted         *)
(* artifacts and its configuration file, with one action per public        *)
(* operation.                                                              *)
(*                                                                         *)
(* Number representation.  Metric values are integers.  A feature weight   *)
(* w is held as 10*w, so a feature value is held in tenths.  A standardised*)
(* value z is held as 10*z.  An anomaly score s is held as the integer     *)
(* 100*s, and a threshold t (an interpolated percentile of scores) as      *)
(* 10000*t, so that numpy's linear interpolation is exact.                 *)
(*                                                                         *)
(* scikit-learn is a library, not part of the repository.  StandardScaler  *)
(* is modelled by its fitted parameters (integer mean and standard         *)
(* deviation).  IsolationForest is modelled by a deterministic stand-in    *)
(* with the library's shape: score_samples is more negative the farther a  *)
(* standardised vector lies from the training centre, offset_ is the       *)
(* contamination percentile of the training score_samples, and             *)
(* decision_function = score_samples - offset_.  The fitted model keeps    *)
(* the score_samples of its training rows, which identify the fit.         *)
(***************************************************************************)
EXTENDS Integers, Sequences, FiniteSets, TLC

VARIABLES
    config_file,     \* the file at config_path: "missing", "malformed", "unreadable" or "valid"
    engine,          \* "none" before construction, "alive", "failed" when __init__ raised
    config,          \* self.config
    model,           \* self.model
    scaler,          \* self.scaler
    is_trained,      \* self.is_trained
    feature_names,   \* self.feature_names
    thresholds,      \* self.thresholds
    model_file,      \* models/anomaly_detector.pkl
    scaler_file,     \* models/scaler.pkl
    metadata_file,   \* models/metadata.json
    last,            \* the last operation called, its arguments and its outcome
    saved_by,        \* the fields of the engine whose save last wrote all three files
    ops,             \* number of operations called since the start
    threads,         \* the calls in progress when two threads share the engine: the
                     \* position and the local variables of each
    pipeline         \* a process_property call of ai_processing/src/main.py: its
                     \* position, its monitor and the files it wrote

vars == << config_file, engine, config, model, scaler, is_trained, feature_names,
           thresholds, model_file, scaler_file, metadata_file, last, saved_by, ops,
           threads, pipeline >>

----------------------------------------------------------------------------
(* Bounds *)

MaxHistory == 3     \* snapshots of the history that training data is cut from
MaxBatchLen == 2    \* snapshots in a batch
MaxOps == 3         \* constructor, train and update calls in a behaviour
MaxScore == 1       \* scores and thresholds of the severity classifier, in whole units
MaxMargin == 2      \* how far below and above each range bound metric values are drawn
ScoreUnits == 3000  \* the confidence function is given scores that are multiples of 1/ScoreUnits
MaxSnapshotLen == 2 \* metrics in the short snapshots given to _identify_affected_metrics
MaxScoresLen == 3   \* rows of a score array given to the calibration
MaxConfSteps == 4   \* how many such steps around 0, 0.5 and 1.0 those scores are drawn from

----------------------------------------------------------------------------
(* Generic helpers *)

Abs(x) == IF x < 0 THEN -x ELSE x

Min(a, b) == IF a <= b THEN a ELSE b

RECURSIVE SumSeq(_)
SumSeq(s) == IF s = << >> THEN 0 ELSE Head(s) + SumSeq(Tail(s))

\* the largest r in lo..hi with r * r <= v, by bisection
RECURSIVE SqrtBetween(_, _, _)
SqrtBetween(v, lo, hi) ==
    IF lo >= hi THEN lo
    ELSE LET mid == (lo + hi + 1) \div 2
         IN  IF mid * mid <= v
             THEN SqrtBetween(v, mid, hi)
             ELSE SqrtBetween(v, lo, mid - 1)

\* floor of the square root
ISqrt(v) == SqrtBetween(v, 0, Min(v, 46340))

\* the k-th smallest element (k from 1) of a non-empty sequence of integers
KthSmallest(s, k) ==
    CHOOSE v \in { s[i] : i \in DOMAIN s } :
        /\ Cardinality({ i \in DOMAIN s : s[i] < v }) < k
        /\ Cardinality({ i \in DOMAIN s : s[i] <= v }) >= k

\* numpy.percentile(scores, p) with linear interpolation, times 100
Percentile(scores, p) ==
    LET n   == Len(scores)
        h   == (n - 1) * p
        lo  == (h \div 100) + 1
        hi  == Min(lo + 1, n)
        rem == h % 100
        a   == KthSmallest(scores, lo)
        b   == KthSmallest(scores, hi)
    IN  a * 100 + rem * (b - a)

\* dict.get(key, default) on a mapping held as a function
DictGet(d, key, default) == IF key \in DOMAIN d THEN d[key] ELSE default

EmptyDict == [k \in {} |-> 0]

\* a MetricSnapshot is a dict in insertion order: a sequence of <<name, value>>
SnapKeys(m) == { m[i][1] : i \in DOMAIN m }

SnapGet(m, key, default) ==
    IF key \in SnapKeys(m)
    THEN m[CHOOSE i \in DOMAIN m : m[i][1] = key][2]
    ELSE default

----------------------------------------------------------------------------
(* Configuration *)

DefaultFeatureWeights ==
    [n \in {"response_time", "error_rate", "cpu_usage", "memory_usage",
            "throughput", "db_response_time", "active_users", "queue_length"} |->
        CASE n = "response_time"    -> 15
          [] n = "error_rate"       -> 20
          [] n = "cpu_usage"        -> 12
          [] n = "memory_usage"     -> 13
          [] n = "throughput"       -> 10
          [] n = "db_response_time" -> 14
          [] n = "active_users"     -> 8
          [] n = "queue_length"     -> 11]

DefaultSeverityThresholds ==
    [n \in {"low", "medium", "high", "critical"} |->
        CASE n = "low"      -> -1000
          [] n = "medium"   -> -3000
          [] n = "high"     -> -5000
          [] n = "critical" -> -7000]

_get_default_config ==
    [contamination       |-> 10,
     feature_weights     |-> DefaultFeatureWeights,
     severity_thresholds |-> DefaultSeverityThresholds]

\* the content of a valid configuration file: one without feature weights
CustomConfig ==
    [contamination       |-> 10,
     feature_weights     |-> EmptyDict,
     severity_thresholds |-> DefaultSeverityThresholds]

Configs == {_get_default_config, CustomConfig}

ConfigFileStates == {"missing", "malformed", "unreadable", "valid"}

\* _load_config: [raised, value].  open() of a missing file raises
\* FileNotFoundError, which is caught; json.load of a malformed file raises
\* JSONDecodeError and open() of an unreadable one PermissionError, which are not
_load_config(file) ==
    CASE file = "valid"   -> [raised |-> FALSE, value |-> CustomConfig]
      [] file = "missing" -> [raised |-> FALSE, value |-> _get_default_config]
      [] OTHER            -> [raised |-> TRUE,  value |-> _get_default_config]

----------------------------------------------------------------------------
(* Feature vectorisation *)

CanonicalFeatureNames ==
    << "response_time", "error_rate", "cpu_usage", "memory_usage",
       "throughput", "db_response_time", "active_users", "queue_length",
       "document_processing_success_rate", "user_satisfaction_score" >>

\* faulty variant: the names are taken anew from the keys of the first snapshot
FeatureNamesAfter_fromkeys(names, metrics_list) ==
    IF metrics_list # << >>
    THEN [i \in DOMAIN metrics_list[1] |-> metrics_list[1][i][1]]
    ELSE names

\* the value self.feature_names has after prepare_features(metrics_list)
FeatureNamesAfter(names, metrics_list) ==
    IF names = << >> /\ metrics_list # << >> THEN CanonicalFeatureNames ELSE names

\* faulty variant: a metric without a configured weight is weighted 0
prepare_features_unweighted(names, cfg, metrics_list) ==
    LET fn == FeatureNamesAfter(names, metrics_list)
    IN  [i \in DOMAIN metrics_list |->
            [j \in DOMAIN fn |->
                SnapGet(metrics_list[i], fn[j], 0)
                    * DictGet(cfg.feature_weights, fn[j], 0)]]

\* the matrix prepare_features returns; << >> is numpy's empty 1-D array
prepare_features(names, cfg, metrics_list) ==
    LET fn == FeatureNamesAfter(names, metrics_list)
    IN  [i \in DOMAIN metrics_list |->
            [j \in DOMAIN fn |->
                SnapGet(metrics_list[i], fn[j], 0)
                    * DictGet(cfg.feature_weights, fn[j], 10)]]

----------------------------------------------------------------------------
(* StandardScaler *)

UnfittedScaler == [fitted |-> FALSE, mean |-> << >>, scale |-> << >>]

Column(X, j) == [i \in DOMAIN X |-> X[i][j]]

ColumnMean(X, j) == SumSeq(Column(X, j)) \div Len(X)

ColumnScale(X, j) ==
    LET mu  == ColumnMean(X, j)
        var == SumSeq([i \in DOMAIN X |-> (X[i][j] - mu) * (X[i][j] - mu)]) \div Len(X)
        sd  == ISqrt(var)
    IN  IF sd = 0 THEN 1 ELSE sd

\* StandardScaler.fit on a non-empty 2-D matrix
ScalerFit(X) ==
    [fitted |-> TRUE,
     mean   |-> [j \in DOMAIN X[1] |-> ColumnMean(X, j)],
     scale  |-> [j \in DOMAIN X[1] |-> ColumnScale(X, j)]]

\* StandardScaler.transform
ScalerTransform(sc, X) ==
    [i \in DOMAIN X |->
        [j \in DOMAIN X[i] |-> ((X[i][j] - sc.mean[j]) * 10) \div sc.scale[j]]]

----------------------------------------------------------------------------
(* IsolationForest *)

NoModel == [state |-> "none", samples |-> << >>, offset |-> 0]

UnfittedModel == [state |-> "unfitted", samples |-> << >>, offset |-> 0]

score_samples(row) == 0 - SumSeq([j \in DOMAIN row |-> Abs(row[j])])

\* IsolationForest(contamination=...).fit(X_scaled); samples are the
\* score_samples of the training rows, which the fitted trees determine
ModelFit(cfg, Xs) ==
    [state   |-> "fitted",
     samples |-> [i \in DOMAIN Xs |-> score_samples(Xs[i])],
     offset  |-> Percentile([i \in DOMAIN Xs |-> score_samples(Xs[i])],
                            cfg.contamination) \div 100]

\* model.decision_function(X_scaled)
decision_function(m, Xs) == [i \in DOMAIN Xs |-> score_samples(Xs[i]) - m.offset]

\* model.predict(X_scaled)
predict(m, Xs) ==
    [i \in DOMAIN Xs |-> IF decision_function(m, Xs)[i] < 0 THEN -1 ELSE 1]

----------------------------------------------------------------------------
(* Threshold calibration and severity *)

ThresholdNames == {"low", "medium", "high", "critical"}

\* faulty variant: the percentiles are taken from the lower tail
ThresholdPercentile_lower_tail(name) ==
    CASE name = "low"      -> 25
      [] name = "medium"   -> 15
      [] name = "high"     -> 5
      [] name = "critical" -> 1

\* faulty variant: the percentiles of high and critical are exchanged
ThresholdPercentile_swapped(name) ==
    CASE name = "low"      -> 75
      [] name = "medium"   -> 85
      [] name = "high"     -> 99
      [] name = "critical" -> 95

\* zip(percentiles, threshold_names): the percentile assigned to each key
ThresholdPercentile(name) ==
    CASE name = "low"      -> 75
      [] name = "medium"   -> 85
      [] name = "high"     -> 95
      [] name = "critical" -> 99

\* faulty variant: a key that is already set keeps its value
_calculate_dynamic_thresholds_keep(old, scores) ==
    [n \in (DOMAIN old) \cup ThresholdNames |->
        IF n \in DOMAIN old THEN old[n]
        ELSE Percentile(scores, ThresholdPercentile(n))]

\* self.thresholds after _calculate_dynamic_thresholds(scores): the four keys
\* are assigned in place, other keys of the dict stay
_calculate_dynamic_thresholds(old, scores) ==
    [n \in (DOMAIN old) \cup ThresholdNames |->
        IF n \in ThresholdNames
        THEN Percentile(scores, ThresholdPercentile(n))
        ELSE old[n]]

\* faulty variant: ties go to the less severe bucket
_determine_severity_strict(thr, score) ==
    IF score * 100 < DictGet(thr, "critical", -7000) THEN "CRITICAL"
    ELSE IF score * 100 < DictGet(thr, "high", -5000) THEN "HIGH"
    ELSE IF score * 100 < DictGet(thr, "medium", -3000) THEN "MEDIUM"
    ELSE IF score * 100 < DictGet(thr, "low", -1000) THEN "LOW"
    ELSE "NORMAL"

_determine_severity(thr, score) ==
    IF score * 100 <= DictGet(thr, "critical", -7000) THEN "CRITICAL"
    ELSE IF score * 100 <= DictGet(thr, "high", -5000) THEN "HIGH"
    ELSE IF score * 100 <= DictGet(thr, "medium", -3000) THEN "MEDIUM"
    ELSE IF score * 100 <= DictGet(thr, "low", -1000) THEN "LOW"
    ELSE "NORMAL"

\* round(n / d, 3) for n >= 0, in thousandths; a tie goes to the even neighbour
Round3(n, d) ==
    LET q == (n * 1000) \div d
        r == (n * 1000) % d
    IN  IF 2 * r > d THEN q + 1
        ELSE IF 2 * r < d THEN q
        ELSE IF q % 2 = 0 THEN q ELSE q + 1

\* faulty variant: the confidence is not capped at 1.0
ConfidenceOf_uncapped(n, d) == Round3(Abs(n), d)

\* _calculate_confidence of the score n / d:
\* round(min(abs(score) / 1.0, 1.0), 3), in thousandths
ConfidenceOf(n, d) == Round3(Min(Abs(n), d), d)

\* _calculate_confidence of a score in hundredths
_calculate_confidence(score) == ConfidenceOf(score, 100)

----------------------------------------------------------------------------
(* Affected metrics and insights *)

\* normal_ranges; bounded = FALSE stands for max = float('inf')
normal_ranges ==
    [n \in { CanonicalFeatureNames[i] : i \in DOMAIN CanonicalFeatureNames } |->
        CASE n = "response_time"    -> [min |-> 0,  max |-> 2000, bounded |-> TRUE]
          [] n = "error_rate"       -> [min |-> 0,  max |-> 5,    bounded |-> TRUE]
          [] n = "cpu_usage"        -> [min |-> 0,  max |-> 70,   bounded |-> TRUE]
          [] n = "memory_usage"     -> [min |-> 0,  max |-> 80,   bounded |-> TRUE]
          [] n = "throughput"       -> [min |-> 50, max |-> 0,    bounded |-> FALSE]
          [] n = "db_response_time" -> [min |-> 0,  max |-> 1000, bounded |-> TRUE]
          [] n = "active_users"     -> [min |-> 0,  max |-> 0,    bounded |-> FALSE]
          [] n = "queue_length"     -> [min |-> 0,  max |-> 50,   bounded |-> TRUE]
          [] n = "document_processing_success_rate"
                                    -> [min |-> 95, max |-> 100,  bounded |-> TRUE]
          [] n = "user_satisfaction_score"
                                    -> [min |-> 7,  max |-> 10,   bounded |-> TRUE]]

\* faulty variant: the bounds of the range are excluded
InRange_exclusive(value, r) == r.min < value /\ (~r.bounded \/ value < r.max)

\* min_val <= value <= max_val
InRange(value, r) == r.min <= value /\ (~r.bounded \/ value <= r.max)

\* faulty variant: the differences are taken without abs()
_calculate_deviation_signed(value, r) ==
    IF value < r.min
    THEN IF r.min = 0
         THEN [num |-> value * 100, den |-> 1]
         ELSE [num |-> (value - r.min) * 100, den |-> Abs(r.min)]
    ELSE IF r.bounded /\ value > r.max
         THEN [num |-> (value - r.max) * 100, den |-> Abs(r.max)]
         ELSE [num |-> 0, den |-> 1]

\* _calculate_deviation, as the fraction num/den of a percentage
_calculate_deviation(value, r) ==
    IF value < r.min
    THEN IF r.min = 0
         THEN [num |-> Abs(value) * 100, den |-> 1]
         ELSE [num |-> Abs(r.min - value) * 100, den |-> Abs(r.min)]
    ELSE IF r.bounded /\ value > r.max
         THEN [num |-> Abs(value - r.max) * 100, den |-> Abs(r.max)]
         ELSE [num |-> 0, den |-> 1]

\* faulty variant: a deviation equal to a limit gets the higher tag
DeviationSeverity_inclusive(dev) ==
    IF dev.num >= 50 * dev.den THEN "HIGH"
    ELSE IF dev.num >= 25 * dev.den THEN "MEDIUM"
    ELSE "LOW"

\* 'HIGH' if deviation > 50 else 'MEDIUM' if deviation > 25 else 'LOW'
DeviationSeverity(dev) ==
    IF dev.num > 50 * dev.den THEN "HIGH"
    ELSE IF dev.num > 25 * dev.den THEN "MEDIUM"
    ELSE "LOW"

\* _identify_affected_metrics: one record per out-of-range item, in the
\* snapshot's insertion order
RECURSIVE _identify_affected_metrics(_)
_identify_affected_metrics(metrics) ==
    IF metrics = << >> THEN << >>
    ELSE LET name  == Head(metrics)[1]
             value == Head(metrics)[2]
             rest  == _identify_affected_metrics(Tail(metrics))
         IN  IF name \in DOMAIN normal_ranges /\ ~InRange(value, normal_ranges[name])
             THEN << [metric               |-> name,
                      value                |-> value,
                      normal_range         |-> normal_ranges[name],
                      deviation_percentage |-> _calculate_deviation(value, normal_ranges[name]),
                      severity             |-> DeviationSeverity(
                                                   _calculate_deviation(value, normal_ranges[name]))] >>
                  \o rest
             ELSE rest

\* the message the if/elif chain appends for one affected record, if any
MetricInsight(a) ==
    IF a.metric = "response_time" /\ a.value > 3000 THEN << "response_time_critical" >>
    ELSE IF a.metric = "error_rate" /\ a.value > 10 THEN << "error_rate_high" >>
    ELSE IF a.metric = "memory_usage" /\ a.value > 90 THEN << "memory_critical" >>
    ELSE IF a.metric = "cpu_usage" /\ a.value > 85 THEN << "cpu_critical" >>
    ELSE IF a.metric = "document_processing_success_rate" /\ a.value < 90
         THEN << "document_failures_high" >>
    ELSE << >>

\* faulty variant: the loop stops after the first message it appended
RECURSIVE MetricInsights_first(_)
MetricInsights_first(affected) ==
    IF affected = << >> THEN << >>
    ELSE IF MetricInsight(Head(affected)) # << >> THEN MetricInsight(Head(affected))
    ELSE MetricInsights_first(Tail(affected))

\* the messages of the loop over affected_metrics, in its order
RECURSIVE MetricInsights(_)
MetricInsights(affected) ==
    IF affected = << >> THEN << >>
    ELSE MetricInsight(Head(affected)) \o MetricInsights(Tail(affected))

\* faulty variant: the correlation messages are appended before the loop over
\* the affected metrics
_generate_insights_patterns_first(metrics, score, affected) ==
    (IF score < -70 THEN << "score_critical" >>
     ELSE IF score < -50 THEN << "score_significant" >>
     ELSE IF score < -30 THEN << "score_moderate" >>
     ELSE << >>)
    \o (IF SnapGet(metrics, "error_rate", 0) > 5 /\ SnapGet(metrics, "response_time", 0) > 2000
        THEN << "correlation_errors_latency" >> ELSE << >>)
    \o (IF SnapGet(metrics, "memory_usage", 0) > 80 /\ SnapGet(metrics, "cpu_usage", 0) > 70
        THEN << "resource_exhaustion" >> ELSE << >>)
    \o MetricInsights(affected)

\* _generate_insights; a message is named by its rule
_generate_insights(metrics, score, affected) ==
    (IF score < -70 THEN << "score_critical" >>
     ELSE IF score < -50 THEN << "score_significant" >>
     ELSE IF score < -30 THEN << "score_moderate" >>
     ELSE << >>)
    \o MetricInsights(affected)
    \o (IF SnapGet(metrics, "error_rate", 0) > 5 /\ SnapGet(metrics, "response_time", 0) > 2000
        THEN << "correlation_errors_latency" >> ELSE << >>)
    \o (IF SnapGet(metrics, "memory_usage", 0) > 80 /\ SnapGet(metrics, "cpu_usage", 0) > 70
        THEN << "resource_exhaustion" >> ELSE << >>)

----------------------------------------------------------------------------
(* Persistence: joblib pickles and the JSON metadata file *)

AbsentFile == [kind |-> "absent", content |-> << >>]

CorruptFile == [kind |-> "corrupt", content |-> << >>]

\* joblib.dump(obj, path) and joblib.load(path)
Pickle(obj) == [kind |-> "ok", content |-> << obj >>]

Unpickle(file) == file.content[1]

ThresholdOrder == << "low", "medium", "high", "critical" >>

\* json.dump of a dict of floats: the list of its key/value pairs
JsonDumpDict(d) ==
    LET keys == SelectSeq(ThresholdOrder, LAMBDA k : k \in DOMAIN d)
    IN  [i \in DOMAIN keys |-> << keys[i], d[keys[i]] >>]

\* json.load of such an object
JsonLoadDict(pairs) ==
    [k \in { pairs[i][1] : i \in DOMAIN pairs } |->
        pairs[CHOOSE i \in DOMAIN pairs : pairs[i][1] = k][2]]

\* the metadata file written by _save_model (trained_at is not modelled)
JsonDumpMetadata(names, thr, cfg) ==
    [kind    |-> "ok",
     content |-> << [feature_names |-> names,
                     thresholds    |-> JsonDumpDict(thr),
                     config        |-> cfg] >>]

\* how a call of _save_model can end: all three files written, or the write
\* of one file raising, that file left as it was or left truncated
SaveOutcomes ==
    {"ok", "model_untouched", "model_truncated", "scaler_untouched",
     "scaler_truncated", "metadata_untouched", "metadata_truncated"}

\* the outcomes the state machine draws from
SaveOutcomesDrawn == {"ok", "model_untouched", "scaler_untouched", "metadata_truncated"}

\* the in-memory fields of the engine
Mem == [model         |-> model,
        scaler        |-> scaler,
        is_trained    |-> is_trained,
        feature_names |-> feature_names,
        thresholds    |-> thresholds]

\* the persisted artifacts
Files == [model_file    |-> model_file,
          scaler_file   |-> scaler_file,
          metadata_file |-> metadata_file]

\* no file exists
NoFiles == [model_file |-> AbsentFile, scaler_file |-> AbsentFile, metadata_file |-> AbsentFile]

\* _save_model: the files after the call; every exception is caught and logged
_save_model(st, cfg, files, outcome) ==
    CASE outcome = "model_untouched" -> files
      [] outcome = "model_truncated" -> [files EXCEPT !.model_file = CorruptFile]
      [] outcome = "scaler_untouched" ->
            [files EXCEPT !.model_file = Pickle(st.model)]
      [] outcome = "scaler_truncated" ->
            [files EXCEPT !.model_file = Pickle(st.model),
                          !.scaler_file = CorruptFile]
      [] outcome = "metadata_untouched" ->
            [files EXCEPT !.model_file = Pickle(st.model),
                          !.scaler_file = Pickle(st.scaler)]
      [] outcome = "metadata_truncated" ->
            [files EXCEPT !.model_file = Pickle(st.model),
                          !.scaler_file = Pickle(st.scaler),
                          !.metadata_file = CorruptFile]
      [] OTHER ->
            [model_file    |-> Pickle(st.model),
             scaler_file   |-> Pickle(st.scaler),
             metadata_file |-> JsonDumpMetadata(st.feature_names, st.thresholds, cfg)]

\* faulty variant: a metadata file that cannot be read is tolerated
_load_trained_model_lenient(st, files) ==
    IF files.model_file.kind # "ok" \/ files.scaler_file.kind # "ok"
    THEN [raised |-> TRUE, st |-> st]
    ELSE LET s2 == [st EXCEPT !.model = Unpickle(files.model_file),
                              !.scaler = Unpickle(files.scaler_file)]
         IN  IF files.metadata_file.kind # "ok"
             THEN [raised |-> FALSE, st |-> [s2 EXCEPT !.is_trained = TRUE]]
             ELSE [raised |-> FALSE,
                   st |-> [s2 EXCEPT
                       !.feature_names = files.metadata_file.content[1].feature_names,
                       !.thresholds = JsonLoadDict(files.metadata_file.content[1].thresholds),
                       !.is_trained = TRUE]]

\* faulty variant: the thresholds of the metadata are not restored
_load_trained_model_no_thresholds(st, files) ==
    IF files.model_file.kind # "ok" \/ files.scaler_file.kind # "ok"
       \/ files.metadata_file.kind # "ok"
    THEN [raised |-> TRUE, st |-> st]
    ELSE [raised |-> FALSE,
          st |-> [st EXCEPT
              !.model = Unpickle(files.model_file),
              !.scaler = Unpickle(files.scaler_file),
              !.feature_names = files.metadata_file.content[1].feature_names,
              !.is_trained = TRUE]]

\* _load_trained_model: [raised, st]; the fields are assigned one by one, and
\* any exception is re-raised as RuntimeError
_load_trained_model(st, files) ==
    IF files.model_file.kind # "ok"
    THEN [raised |-> TRUE, st |-> st]
    ELSE LET s1 == [st EXCEPT !.model = Unpickle(files.model_file)]
         IN  IF files.scaler_file.kind # "ok"
             THEN [raised |-> TRUE, st |-> s1]
             ELSE LET s2 == [s1 EXCEPT !.scaler = Unpickle(files.scaler_file)]
                  IN  IF files.metadata_file.kind # "ok"
                      THEN [raised |-> TRUE, st |-> s2]
                      ELSE LET metadata == files.metadata_file.content[1]
                           IN  [raised |-> FALSE,
                                st |-> [s2 EXCEPT
                                    !.feature_names = metadata.feature_names,
                                    !.thresholds = JsonLoadDict(metadata.thresholds),
                                    !.is_trained = TRUE]]

----------------------------------------------------------------------------
(* Inputs *)

SnapNormal ==
    << << "response_time", 800 >>, << "error_rate", 2 >>, << "cpu_usage", 40 >>,
       << "memory_usage", 60 >>, << "throughput", 500 >>, << "db_response_time", 200 >>,
       << "active_users", 200 >>, << "queue_length", 10 >>,
       << "document_processing_success_rate", 98 >>, << "user_satisfaction_score", 8 >> >>

SnapBusy ==
    << << "response_time", 1100 >>, << "error_rate", 4 >>, << "cpu_usage", 65 >>,
       << "memory_usage", 75 >>, << "throughput", 400 >>, << "db_response_time", 400 >>,
       << "active_users", 300 >>, << "queue_length", 30 >>,
       << "document_processing_success_rate", 96 >>, << "user_satisfaction_score", 7 >> >>

SnapAnomalous ==
    << << "response_time", 2100 >>, << "error_rate", 18 >>, << "cpu_usage", 92 >>,
       << "memory_usage", 88 >>, << "throughput", 85 >>, << "db_response_time", 1200 >>,
       << "active_users", 45 >>, << "queue_length", 95 >>,
       << "document_processing_success_rate", 75 >>, << "user_satisfaction_score", 4 >> >>

\* a snapshot with missing metrics and a key outside the vocabulary
SnapPartial == << << "disk_io", 5 >>, << "cpu_usage", 75 >> >>

\* the recorded metric history, of which MaxHistory snapshots are used
History == << SnapNormal, SnapBusy, SnapAnomalous, SnapPartial, SnapNormal, SnapAnomalous >>

\* historical data: the empty list and every window of the history
TrainSets ==
    { << >> } \cup { SubSeq(History, i, j) : i, j \in 1..Min(MaxHistory, Len(History)) }

DetectSnapshots == {SnapNormal, SnapAnomalous, SnapPartial}

SeqsUpTo(S, n) == UNION { [1..k -> S] : k \in 0..n }

Batches == SeqsUpTo({SnapNormal, SnapAnomalous}, MaxBatchLen)

----------------------------------------------------------------------------
(* The operations, as functions of the engine's fields *)

\* the fit of train_on_historical_data on a non-empty matrix: the fitted
\* scaler, the fitted model and the decision_function scores of the rows
FitAll(cfg, X) ==
    LET sc == ScalerFit(X)
        Xs == ScalerTransform(sc, X)
        m  == ModelFit(cfg, Xs)
    IN  [scaler |-> sc, model |-> m, scores |-> decision_function(m, Xs)]

\* FitAll on the matrices of the training sets, computed once
FitTable ==
    [k \in { << cfg, prepare_features(CanonicalFeatureNames, cfg, d) >> :
                cfg \in Configs, d \in TrainSets \ { << >> } } |-> FitAll(k[1], k[2])]

Fit(cfg, X) == IF << cfg, X >> \in DOMAIN FitTable THEN FitTable[<< cfg, X >>] ELSE FitAll(cfg, X)

\* faulty variant: a detect recalibrates the thresholds from the score it computed
detect_anomalies_recalibrating(st, cfg, files, metrics) ==
    LET load == IF st.is_trained
                THEN [raised |-> FALSE, st |-> st]
                ELSE _load_trained_model(st, files)
        tried == IF st.is_trained THEN "none"
                 ELSE IF load.raised THEN "failed" ELSE "ok"
        s1 == [load.st EXCEPT
                  !.feature_names = FeatureNamesAfter(load.st.feature_names, << metrics >>)]
        X  == prepare_features(load.st.feature_names, cfg, << metrics >>)
    IN  IF load.raised
        THEN [raised |-> TRUE, error |-> "RuntimeError", loaded |-> tried,
              result |-> << >>, st |-> load.st]
        ELSE IF ~s1.scaler.fitted
        THEN [raised |-> TRUE, error |-> "NotFittedError", loaded |-> tried,
              result |-> << >>, st |-> s1]
        ELSE IF s1.model.state # "fitted"
        THEN [raised |-> TRUE,
              error |-> IF s1.model.state = "none" THEN "AttributeError" ELSE "NotFittedError",
              loaded |-> tried, result |-> << >>, st |-> s1]
        ELSE LET Xs       == ScalerTransform(s1.scaler, X)
                 score    == decision_function(s1.model, Xs)[1]
                 affected == _identify_affected_metrics(metrics)
             IN  [raised |-> FALSE,
                  error  |-> "",
                  loaded |-> tried,
                  result |-> << [is_anomaly       |-> predict(s1.model, Xs)[1] = -1,
                                 severity         |-> _determine_severity(s1.thresholds, score),
                                 anomaly_score    |-> score,
                                 affected_metrics |-> affected,
                                 insights         |-> _generate_insights(metrics, score, affected),
                                 confidence       |-> _calculate_confidence(score)] >>,
                  st |-> [s1 EXCEPT !.thresholds =
                             _calculate_dynamic_thresholds(s1.thresholds, << score >>)]]

\* faulty variant: when no model can be loaded, one is fitted to the snapshot itself
detect_anomalies_autotrain(st, cfg, files, metrics) ==
    LET load == IF st.is_trained
                THEN [raised |-> FALSE, st |-> st]
                ELSE _load_trained_model(st, files)
        tried == IF st.is_trained THEN "none"
                 ELSE IF load.raised THEN "failed" ELSE "ok"
        names == FeatureNamesAfter(load.st.feature_names, << metrics >>)
        X   == prepare_features(load.st.feature_names, cfg, << metrics >>)
        fit == FitAll(cfg, X)
        s1  == IF load.raised
               THEN [load.st EXCEPT !.feature_names = names,
                                    !.scaler = fit.scaler,
                                    !.model = fit.model,
                                    !.is_trained = TRUE]
               ELSE [load.st EXCEPT !.feature_names = names]
    IN  IF ~s1.scaler.fitted \/ s1.model.state # "fitted"
        THEN [raised |-> TRUE, error |-> "NotFittedError", loaded |-> tried,
              result |-> << >>, st |-> s1]
        ELSE LET Xs       == ScalerTransform(s1.scaler, X)
                 score    == decision_function(s1.model, Xs)[1]
                 affected == _identify_affected_metrics(metrics)
             IN  [raised |-> FALSE,
                  error  |-> "",
                  loaded |-> tried,
                  result |-> << [is_anomaly       |-> predict(s1.model, Xs)[1] = -1,
                                 severity         |-> _determine_severity(s1.thresholds, score),
                                 anomaly_score    |-> score,
                                 affected_metrics |-> affected,
                                 insights         |-> _generate_insights(metrics, score, affected),
                                 confidence       |-> _calculate_confidence(score)] >>,
                  st |-> s1]

\* detect_anomalies: [raised, error, loaded, result, st]; error names the
\* exception that leaves the call
detect_anomalies(st, cfg, files, metrics) ==
    LET load == IF st.is_trained
                THEN [raised |-> FALSE, st |-> st]
                ELSE _load_trained_model(st, files)
        tried == IF st.is_trained THEN "none"
                 ELSE IF load.raised THEN "failed" ELSE "ok"
        s1 == [load.st EXCEPT
                  !.feature_names = FeatureNamesAfter(load.st.feature_names, << metrics >>)]
        X  == prepare_features(load.st.feature_names, cfg, << metrics >>)
    IN  IF load.raised
        THEN [raised |-> TRUE, error |-> "RuntimeError", loaded |-> tried,
              result |-> << >>, st |-> load.st]
        ELSE IF ~s1.scaler.fitted
        THEN [raised |-> TRUE, error |-> "NotFittedError", loaded |-> tried,
              result |-> << >>, st |-> s1]
        ELSE IF s1.model.state # "fitted"
        THEN [raised |-> TRUE,
              error |-> IF s1.model.state = "none" THEN "AttributeError" ELSE "NotFittedError",
              loaded |-> tried, result |-> << >>, st |-> s1]
        ELSE LET Xs       == ScalerTransform(s1.scaler, X)
                 score    == decision_function(s1.model, Xs)[1]
                 affected == _identify_affected_metrics(metrics)
             IN  [raised |-> FALSE,
                  error  |-> "",
                  loaded |-> tried,
                  result |-> << [is_anomaly       |-> predict(s1.model, Xs)[1] = -1,
                                 severity         |-> _determine_severity(s1.thresholds, score),
                                 anomaly_score    |-> score,
                                 affected_metrics |-> affected,
                                 insights         |-> _generate_insights(metrics, score, affected),
                                 confidence       |-> _calculate_confidence(score)] >>,
                  st |-> s1]

\* faulty variant: each result is put in front of the list
RECURSIVE batch_detect_anomalies_reversed(_, _, _, _)
batch_detect_anomalies_reversed(st, cfg, files, metrics_batch) ==
    IF metrics_batch = << >>
    THEN [raised |-> FALSE, error |-> "", results |-> << >>, st |-> st]
    ELSE LET one == detect_anomalies(st, cfg, files, Head(metrics_batch))
         IN  IF one.raised
             THEN [raised |-> TRUE, error |-> one.error, results |-> << >>, st |-> one.st]
             ELSE LET rest == batch_detect_anomalies_reversed(one.st, cfg, files,
                                                              Tail(metrics_batch))
                  IN  [raised  |-> rest.raised,
                       error   |-> rest.error,
                       results |-> IF rest.raised THEN << >> ELSE rest.results \o one.result,
                       st      |-> rest.st]

\* batch_detect_anomalies: [raised, error, results, st]; an exception of one item
\* ends the loop and no list is returned
RECURSIVE batch_detect_anomalies(_, _, _, _)
batch_detect_anomalies(st, cfg, files, metrics_batch) ==
    IF metrics_batch = << >>
    THEN [raised |-> FALSE, error |-> "", results |-> << >>, st |-> st]
    ELSE LET one == detect_anomalies(st, cfg, files, Head(metrics_batch))
         IN  IF one.raised
             THEN [raised |-> TRUE, error |-> one.error, results |-> << >>, st |-> one.st]
             ELSE LET rest == batch_detect_anomalies(one.st, cfg, files, Tail(metrics_batch))
                  IN  [raised  |-> rest.raised,
                       error   |-> rest.error,
                       results |-> IF rest.raised THEN << >> ELSE one.result \o rest.results,
                       st      |-> rest.st]

\* faulty variant: when the save fails the fields are put back as they were
train_on_historical_data_rollback(st, cfg, files, historical_metrics, outcome) ==
    LET X  == prepare_features(st.feature_names, cfg, historical_metrics)
        s1 == [st EXCEPT
                  !.feature_names = FeatureNamesAfter(st.feature_names, historical_metrics),
                  !.model = UnfittedModel]
    IN  IF X = << >>
        THEN [raised |-> TRUE, error |-> "ValueError", saved |-> "none",
              st |-> [s1 EXCEPT !.scaler = UnfittedScaler], files |-> files]
        ELSE LET fit == Fit(cfg, X)
                 s2  == [s1 EXCEPT
                            !.scaler = fit.scaler,
                            !.model = fit.model,
                            !.is_trained = TRUE,
                            !.thresholds = _calculate_dynamic_thresholds(st.thresholds, fit.scores)]
             IN  [raised |-> FALSE,
                  error  |-> "",
                  saved  |-> IF outcome = "ok" THEN "ok" ELSE "failed",
                  st     |-> IF outcome = "ok" THEN s2 ELSE st,
                  files  |-> _save_model(s2, cfg, files, outcome)]

\* faulty variant: an empty list is accepted, the engine is marked trained and saved
train_on_historical_data_degenerate(st, cfg, files, historical_metrics, outcome) ==
    LET X  == prepare_features(st.feature_names, cfg, historical_metrics)
        s1 == [st EXCEPT
                  !.feature_names = FeatureNamesAfter(st.feature_names, historical_metrics),
                  !.model = UnfittedModel,
                  !.is_trained = TRUE]
        s2 == IF X = << >> THEN s1
              ELSE [s1 EXCEPT
                       !.scaler = Fit(cfg, X).scaler,
                       !.model = Fit(cfg, X).model,
                       !.thresholds = _calculate_dynamic_thresholds(st.thresholds,
                                                                    Fit(cfg, X).scores)]
    IN  [raised |-> FALSE,
         error  |-> "",
         saved  |-> IF outcome = "ok" THEN "ok" ELSE "failed",
         st     |-> s2,
         files  |-> _save_model(s2, cfg, files, outcome)]

\* train_on_historical_data: [raised, error, saved, st, files]
train_on_historical_data(st, cfg, files, historical_metrics, outcome) ==
    LET X  == prepare_features(st.feature_names, cfg, historical_metrics)
        s1 == [st EXCEPT
                  !.feature_names = FeatureNamesAfter(st.feature_names, historical_metrics),
                  !.model = UnfittedModel]
    IN  IF X = << >>
        THEN \* fit_transform resets the scaler, then rejects the empty 1-D array
             [raised |-> TRUE, error |-> "ValueError", saved |-> "none",
              st |-> [s1 EXCEPT !.scaler = UnfittedScaler], files |-> files]
        ELSE LET fit == Fit(cfg, X)
                 s2  == [s1 EXCEPT
                            !.scaler = fit.scaler,
                            !.model = fit.model,
                            !.is_trained = TRUE,
                            !.thresholds = _calculate_dynamic_thresholds(st.thresholds, fit.scores)]
             IN  [raised |-> FALSE,
                  error  |-> "",
                  saved  |-> IF outcome = "ok" THEN "ok" ELSE "failed",
                  st     |-> s2,
                  files  |-> _save_model(s2, cfg, files, outcome)]

\* faulty variant: the model is refitted whatever retrain says
update_model_always_retrain(st, cfg, files, new_data, retrain, outcome) ==
    train_on_historical_data(st, cfg, files, new_data, outcome)

\* update_model: [raised, error, saved, st, files]
update_model(st, cfg, files, new_data, retrain, outcome) ==
    IF retrain
    THEN train_on_historical_data(st, cfg, files, new_data, outcome)
    ELSE LET X  == prepare_features(st.feature_names, cfg, new_data)
             s1 == [st EXCEPT
                       !.feature_names = FeatureNamesAfter(st.feature_names, new_data)]
         IN  IF ~s1.scaler.fitted \/ X = << >> \/ s1.model.state # "fitted"
             THEN [raised |-> TRUE,
                   error  |-> IF ~s1.scaler.fitted THEN "NotFittedError"
                              ELSE IF X = << >> THEN "ValueError"
                              ELSE IF s1.model.state = "none" THEN "AttributeError"
                              ELSE "NotFittedError",
                   saved |-> "none", st |-> s1, files |-> files]
             ELSE LET scores == decision_function(s1.model, ScalerTransform(s1.scaler, X))
                      s2 == [s1 EXCEPT
                                !.thresholds = _calculate_dynamic_thresholds(st.thresholds, scores)]
                  IN  [raised |-> FALSE,
                       error  |-> "",
                       saved  |-> IF outcome = "ok" THEN "ok" ELSE "failed",
                       st     |-> s2,
                       files  |-> _save_model(s2, cfg, files, outcome)]

----------------------------------------------------------------------------
(* State machine *)

\* last: the call (op, data, retrain), whether the engine was trained and had
\* its feature names when it was made, and how it ended: status "ok" or "error"
\* with the exception's name, the results returned, and what the call's save
\* and load did
NoOp == [op |-> "none", data |-> << >>, retrain |-> FALSE, was_trained |-> FALSE,
         had_names |-> FALSE,
         status |-> "ok", error |-> "", results |-> << >>,
         saved |-> "none", loaded |-> "none"]

\* no call is in progress: every call runs to completion in one step
NoThreads == [trainer |-> [pc |-> "idle"], detector |-> [pc |-> "idle"], overlap |-> FALSE]

\* the four stages of process_property, in the order of its with-blocks
Stages == << "document_processing", "ai_analysis", "financial_modeling", "report_generation" >>

\* the documents a call can be given
DocTypes == {"rent_roll", "t12", "offering_memo", "template"}

\* no process_property call has been made
NoPipeline ==
    [pc               |-> "idle",
     next             |-> 1,
     paths            |-> {},
     unparsed         |-> {},
     trace            |-> << >>,
     failures         |-> << >>,
     failure_files    |-> 0,
     processing_times |-> {},
     files_processed  |-> 0,
     files_failed     |-> 0,
     error            |-> "",
     results_file     |-> << >>,
     error_file       |-> << >>,
     reports          |-> 0,
     outcome          |-> "none"]

\* the fields __init__ assigns before it loads the configuration
InitMem == [model         |-> NoModel,
            scaler        |-> UnfittedScaler,
            is_trained    |-> FALSE,
            feature_names |-> << >>,
            thresholds    |-> EmptyDict]

NotSaved == [valid |-> FALSE, mem |-> InitMem]

SetMem(st) ==
    /\ model' = st.model
    /\ scaler' = st.scaler
    /\ is_trained' = st.is_trained
    /\ feature_names' = st.feature_names
    /\ thresholds' = st.thresholds

SetFiles(files) ==
    /\ model_file' = files.model_file
    /\ scaler_file' = files.scaler_file
    /\ metadata_file' = files.metadata_file

\* what the three files hold after a call that may have saved
SavedByAfter(r) ==
    IF r.saved = "ok" THEN [valid |-> TRUE, mem |-> r.st]
    ELSE IF r.files = Files THEN saved_by
    ELSE NotSaved

Init ==
    /\ config_file \in ConfigFileStates
    /\ engine = "none"
    /\ config = _get_default_config
    /\ model = InitMem.model
    /\ scaler = InitMem.scaler
    /\ is_trained = InitMem.is_trained
    /\ feature_names = InitMem.feature_names
    /\ thresholds = InitMem.thresholds
    /\ model_file = AbsentFile
    /\ scaler_file = AbsentFile
    /\ metadata_file = AbsentFile
    /\ last = NoOp
    /\ saved_by = NotSaved
    /\ ops = 0
    /\ threads = NoThreads
    /\ pipeline = NoPipeline

\* AnomalyDetectionEngine(config_path): a new engine object replaces the old one
Construct ==
    /\ ops < MaxOps
    /\ LET c == _load_config(config_file)
       IN  /\ engine' = IF c.raised THEN "failed" ELSE "alive"
           /\ config' = c.value
           /\ last' = [NoOp EXCEPT !.op = "init",
                                   !.status = IF c.raised THEN "error" ELSE "ok",
                                   !.error = IF ~c.raised THEN ""
                                             ELSE IF config_file = "malformed"
                                                  THEN "JSONDecodeError"
                                                  ELSE "PermissionError"]
    /\ SetMem(InitMem)
    /\ ops' = ops + 1
    /\ UNCHANGED << config_file, model_file, scaler_file, metadata_file, saved_by,
                    threads, pipeline >>

Train(data, outcome) ==
    /\ engine = "alive"
    /\ ops < MaxOps
    /\ \E r \in { train_on_historical_data(Mem, config, Files, data, outcome) } :
           /\ SetMem(r.st)
           /\ SetFiles(r.files)
           /\ saved_by' = SavedByAfter(r)
           /\ last' = [NoOp EXCEPT !.op = "train", !.data = data,
                                   !.was_trained = is_trained,
                                   !.had_names = feature_names # << >>,
                                   !.status = IF r.raised THEN "error" ELSE "ok",
                                   !.error = r.error,
                                   !.saved = r.saved]
    /\ ops' = ops + 1
    /\ UNCHANGED << config_file, engine, config, threads, pipeline >>

Update(data, retrain, outcome) ==
    /\ engine = "alive"
    /\ ops < MaxOps
    /\ \E r \in { update_model(Mem, config, Files, data, retrain, outcome) } :
           /\ SetMem(r.st)
           /\ SetFiles(r.files)
           /\ saved_by' = SavedByAfter(r)
           /\ last' = [NoOp EXCEPT !.op = "update", !.data = data, !.retrain = retrain,
                                   !.was_trained = is_trained,
                                   !.had_names = feature_names # << >>,
                                   !.status = IF r.raised THEN "error" ELSE "ok",
                                   !.error = r.error,
                                   !.saved = r.saved]
    /\ ops' = ops + 1
    /\ UNCHANGED << config_file, engine, config, threads, pipeline >>

Detect(metrics) ==
    /\ engine = "alive"
    /\ \E r \in { detect_anomalies(Mem, config, Files, metrics) } :
           /\ SetMem(r.st)
           /\ last' = [NoOp EXCEPT !.op = "detect", !.data = << metrics >>,
                                   !.was_trained = is_trained,
                                   !.had_names = feature_names # << >>,
                                   !.status = IF r.raised THEN "error" ELSE "ok",
                                   !.error = r.error,
                                   !.results = r.result,
                                   !.loaded = r.loaded]
    /\ UNCHANGED << config_file, engine, config, model_file, scaler_file,
                    metadata_file, saved_by, ops, threads, pipeline >>

BatchDetect(metrics_batch) ==
    /\ engine = "alive"
    /\ \E r \in { batch_detect_anomalies(Mem, config, Files, metrics_batch) } :
           /\ SetMem(r.st)
           /\ last' = [NoOp EXCEPT !.op = "batch", !.data = metrics_batch,
                                   !.was_trained = is_trained,
                                   !.had_names = feature_names # << >>,
                                   !.status = IF r.raised THEN "error" ELSE "ok",
                                   !.error = r.error,
                                   !.results = r.results]
    /\ UNCHANGED << config_file, engine, config, model_file, scaler_file,
                    metadata_file, saved_by, ops, threads, pipeline >>

TrainAny ==
    \E data \in TrainSets, outcome \in SaveOutcomesDrawn : Train(data, outcome)

UpdateAny ==
    \E data \in TrainSets, retrain \in BOOLEAN, outcome \in SaveOutcomesDrawn :
        Update(data, retrain, outcome)

DetectAny == \E metrics \in DetectSnapshots : Detect(metrics)

BatchDetectAny ==
    \E metrics_batch \in Batches : BatchDetect(metrics_batch)

Next == Construct \/ TrainAny \/ UpdateAny \/ DetectAny \/ BatchDetectAny

Spec == Init /\ [][Next]_vars

----------------------------------------------------------------------------
(* The severity classifier on its own: every set of four thresholds and    *)
(* every score around them                                                  *)

ThresholdValues == { v * 100 : v \in (0 - MaxScore)..MaxScore }

Scores == (0 - MaxScore - 1)..(MaxScore + 1)

InitSeverity ==
    /\ config_file = "missing"
    /\ engine = "alive"
    /\ config = _get_default_config
    /\ model = InitMem.model
    /\ scaler = InitMem.scaler
    /\ is_trained = InitMem.is_trained
    /\ feature_names = InitMem.feature_names
    /\ thresholds \in [ThresholdNames -> ThresholdValues]
    /\ model_file = AbsentFile
    /\ scaler_file = AbsentFile
    /\ metadata_file = AbsentFile
    /\ last = NoOp
    /\ saved_by = NotSaved
    /\ ops = 0
    /\ threads = NoThreads
    /\ pipeline = NoPipeline

\* self._determine_severity(score)
DetermineSeverity(score) ==
    /\ last' = [NoOp EXCEPT !.op = "severity",
                            !.data = << score >>,
                            !.results = << _determine_severity(thresholds, score) >>]
    /\ UNCHANGED << config_file, engine, config, model, scaler, is_trained,
                    feature_names, thresholds, model_file, scaler_file,
                    metadata_file, saved_by, ops, threads, pipeline >>

NextSeverity == \E score \in Scores : DetermineSeverity(score)

SpecSeverity == InitSeverity /\ [][NextSeverity]_vars

----------------------------------------------------------------------------
(* Loading on demand: an untrained engine in front of every combination of  *)
(* present, missing and undecodable files                                    *)

\* the files a complete save of an engine trained on the first MaxHistory
\* snapshots of the history leaves
SavedFiles ==
    train_on_historical_data(InitMem, _get_default_config, NoFiles,
                             SubSeq(History, 1, Min(MaxHistory, Len(History))), "ok").files

InitLoad ==
    /\ config_file = "missing"
    /\ engine = "alive"
    /\ config = _get_default_config
    /\ model = InitMem.model
    /\ scaler = InitMem.scaler
    /\ is_trained = InitMem.is_trained
    /\ feature_names = InitMem.feature_names
    /\ thresholds = InitMem.thresholds
    /\ model_file \in {SavedFiles.model_file, AbsentFile, CorruptFile}
    /\ scaler_file \in {SavedFiles.scaler_file, AbsentFile, CorruptFile}
    /\ metadata_file \in {SavedFiles.metadata_file, AbsentFile, CorruptFile}
    /\ last = NoOp
    /\ saved_by = NotSaved
    /\ ops = MaxOps - 1
    /\ threads = NoThreads
    /\ pipeline = NoPipeline

NextLoad == DetectAny \/ BatchDetectAny \/ TrainAny \/ UpdateAny

SpecLoad == InitLoad /\ [][NextLoad]_vars

----------------------------------------------------------------------------
(* The deviation of one metric value from its normal range                  *)

\* the lower and upper bounds that occur in normal_ranges
RangeBounds ==
    { normal_ranges[n].min : n \in DOMAIN normal_ranges }
        \cup { normal_ranges[n].max : n \in { m \in DOMAIN normal_ranges :
                                                  normal_ranges[m].bounded } }

\* metric values at and around every bound
MetricValues == UNION { (b - MaxMargin)..(b + MaxMargin) : b \in RangeBounds }

InitDeviation ==
    /\ config_file = "missing"
    /\ engine = "alive"
    /\ config = _get_default_config
    /\ model = InitMem.model
    /\ scaler = InitMem.scaler
    /\ is_trained = InitMem.is_trained
    /\ feature_names = InitMem.feature_names
    /\ thresholds = InitMem.thresholds
    /\ model_file = AbsentFile
    /\ scaler_file = AbsentFile
    /\ metadata_file = AbsentFile
    /\ \E name \in DOMAIN normal_ranges, value \in MetricValues :
          last = [NoOp EXCEPT !.op = "input", !.data = << name, value >>]
    /\ saved_by = NotSaved
    /\ ops = 0
    /\ threads = NoThreads
    /\ pipeline = NoPipeline

\* self._calculate_deviation(value, min_val, max_val) with the range of the metric
CalculateDeviation ==
    /\ last.op = "input"
    /\ last' = [last EXCEPT
                    !.op = "deviation",
                    !.results = << _calculate_deviation(last.data[2],
                                                        normal_ranges[last.data[1]]) >>]
    /\ UNCHANGED << config_file, engine, config, model, scaler, is_trained,
                    feature_names, thresholds, model_file, scaler_file,
                    metadata_file, saved_by, ops, threads, pipeline >>

NextDeviation == CalculateDeviation

SpecDeviation == InitDeviation /\ [][NextDeviation]_vars

----------------------------------------------------------------------------
(* The confidence of a score, on pairs of scores                            *)

\* numerators of the scores: around 0, around 0.5 and around 1.0, of either sign
ConfidenceScores ==
    LET mags == (0..MaxConfSteps)
                  \cup ((ScoreUnits \div 2 - MaxConfSteps)..(ScoreUnits \div 2 + MaxConfSteps))
                  \cup ((ScoreUnits - MaxConfSteps)..(ScoreUnits + MaxConfSteps))
    IN  mags \cup { 0 - m : m \in mags }

InitConfidence ==
    /\ config_file = "missing"
    /\ engine = "alive"
    /\ config = _get_default_config
    /\ model = InitMem.model
    /\ scaler = InitMem.scaler
    /\ is_trained = InitMem.is_trained
    /\ feature_names = InitMem.feature_names
    /\ thresholds = InitMem.thresholds
    /\ model_file = AbsentFile
    /\ scaler_file = AbsentFile
    /\ metadata_file = AbsentFile
    /\ \E s1 \in ConfidenceScores, s2 \in ConfidenceScores :
          last = [NoOp EXCEPT !.op = "input", !.data = << s1, s2 >>]
    /\ saved_by = NotSaved
    /\ ops = 0
    /\ threads = NoThreads
    /\ pipeline = NoPipeline

\* self._calculate_confidence(score), for each of the two scores
CalculateConfidence ==
    /\ last.op = "input"
    /\ last' = [last EXCEPT
                    !.op = "confidence",
                    !.results = << ConfidenceOf(last.data[1], ScoreUnits),
                                   ConfidenceOf(last.data[2], ScoreUnits) >>]
    /\ UNCHANGED << config_file, engine, config, model, scaler, is_trained,
                    feature_names, thresholds, model_file, scaler_file,
                    metadata_file, saved_by, ops, threads, pipeline >>

NextConfidence == CalculateConfidence

SpecConfidence == InitConfidence /\ [][NextConfidence]_vars

----------------------------------------------------------------------------
(* The affected metrics of a snapshot                                       *)

\* three canonical metrics (bounded range from 0, range without upper limit,
\* range with a non-zero minimum) and a key outside the vocabulary
ItemNames == {"cpu_usage", "throughput", "document_processing_success_rate", "disk_io"}

\* the values of an item: at each bound of its range, one below and one above
ItemValues(name) ==
    IF name \notin DOMAIN normal_ranges THEN {5, 500}
    ELSE LET r == normal_ranges[name]
         IN  ((r.min - 1)..(r.min + 1))
                \cup (IF r.bounded THEN (r.max - 1)..(r.max + 1) ELSE {})

Items == UNION { { << name, v >> : v \in ItemValues(name) } : name \in ItemNames }

\* dicts of at most MaxSnapshotLen items, in every insertion order; a dict holds
\* a key once
ShortSnapshots ==
    { m \in SeqsUpTo(Items, MaxSnapshotLen) :
        \A i \in DOMAIN m, j \in DOMAIN m : i # j => m[i][1] # m[j][1] }

\* items whose deviation is exactly 25 or 50 percent, or just off it
TagLimitItems ==
    { << "memory_usage", v >> : v \in {100, 101, 120, 121} }
       \cup { << "response_time", v >> : v \in {2500, 2501, 3000, 3001} }
       \cup { << "throughput", v >> : v \in {24, 25, 37, 38} }

TagLimitSnapshots ==
    { m \in SeqsUpTo(TagLimitItems, MaxSnapshotLen) :
        \A i \in DOMAIN m, j \in DOMAIN m : i # j => m[i][1] # m[j][1] }

AffectedInputs ==
    ShortSnapshots \cup TagLimitSnapshots
       \cup {SnapNormal, SnapBusy, SnapAnomalous, SnapPartial}

InitAffected ==
    /\ config_file = "missing"
    /\ engine = "alive"
    /\ config = _get_default_config
    /\ model = InitMem.model
    /\ scaler = InitMem.scaler
    /\ is_trained = InitMem.is_trained
    /\ feature_names = InitMem.feature_names
    /\ thresholds = InitMem.thresholds
    /\ model_file = AbsentFile
    /\ scaler_file = AbsentFile
    /\ metadata_file = AbsentFile
    /\ \E metrics \in AffectedInputs :
          last = [NoOp EXCEPT !.op = "input", !.data = << metrics >>]
    /\ saved_by = NotSaved
    /\ ops = 0
    /\ threads = NoThreads
    /\ pipeline = NoPipeline

\* self._identify_affected_metrics(metrics)
IdentifyAffected ==
    /\ last.op = "input"
    /\ last' = [last EXCEPT !.op = "affected",
                            !.results = _identify_affected_metrics(last.data[1])]
    /\ UNCHANGED << config_file, engine, config, model, scaler, is_trained,
                    feature_names, thresholds, model_file, scaler_file,
                    metadata_file, saved_by, ops, threads, pipeline >>

NextAffected == IdentifyAffected

SpecAffected == InitAffected /\ [][NextAffected]_vars

\* ---------------------------------------------------------------------------
\* _calculate_dynamic_thresholds called again and again on one engine

\* decision_function values (times 100) the calibration is given
CalibrationScoreValues == {-30, 0, 20}

\* the score arrays: one row per snapshot of a non-empty data set
ScoreArrays == SeqsUpTo(CalibrationScoreValues, MaxScoresLen) \ { << >> }

\* the engine after __init__: self.thresholds = {}
InitCalibrate ==
    /\ config_file = "missing"
    /\ engine = "alive"
    /\ config = _get_default_config
    /\ model = InitMem.model
    /\ scaler = InitMem.scaler
    /\ is_trained = InitMem.is_trained
    /\ feature_names = InitMem.feature_names
    /\ thresholds = InitMem.thresholds
    /\ model_file = AbsentFile
    /\ scaler_file = AbsentFile
    /\ metadata_file = AbsentFile
    /\ last = NoOp
    /\ saved_by = NotSaved
    /\ ops = 0
    /\ threads = NoThreads
    /\ pipeline = NoPipeline

\* self._calculate_dynamic_thresholds(scores); last keeps the scores and the
\* thresholds the call found
Calibrate(scores) ==
    /\ thresholds' = _calculate_dynamic_thresholds(thresholds, scores)
    /\ last' = [NoOp EXCEPT !.op = "calibrate", !.data = scores,
                            !.results = << thresholds >>]
    /\ UNCHANGED << config_file, engine, config, model, scaler, is_trained,
                    feature_names, model_file, scaler_file,
                    metadata_file, saved_by, ops, threads, pipeline >>

NextCalibrate == \E scores \in ScoreArrays : Calibrate(scores)

SpecCalibrate == InitCalibrate /\ [][NextCalibrate]_vars

\* ---------------------------------------------------------------------------
\* calibrations and severity classifications on one engine

\* anomaly scores (times 100) from below the least to above the greatest
\* calibration score
TierScores == (0 - 31)..21

\* self._determine_severity(score) with the thresholds the engine holds
Classify(score) ==
    /\ last' = [NoOp EXCEPT !.op = "severity",
                            !.data = << score >>,
                            !.results = << _determine_severity(thresholds, score) >>]
    /\ UNCHANGED << config_file, engine, config, model, scaler, is_trained,
                    feature_names, thresholds, model_file, scaler_file,
                    metadata_file, saved_by, ops, threads, pipeline >>

NextTiers ==
    \/ \E scores \in ScoreArrays : Calibrate(scores)
    \/ \E score \in TierScores : Classify(score)

SpecTiers == InitCalibrate /\ [][NextTiers]_vars

\* ---------------------------------------------------------------------------
\* prepare_features on its own: an engine with or without feature names, a
\* configuration and a list of snapshots

FeatureSnapshots == {SnapNormal, SnapBusy, SnapAnomalous, SnapPartial}

FeatureInputs == SeqsUpTo(FeatureSnapshots, MaxBatchLen)

InitFeatures ==
    /\ config_file = "missing"
    /\ engine = "alive"
    /\ config \in Configs
    /\ model = InitMem.model
    /\ scaler = InitMem.scaler
    /\ is_trained = InitMem.is_trained
    /\ feature_names \in {<< >>, CanonicalFeatureNames}
    /\ thresholds = InitMem.thresholds
    /\ model_file = AbsentFile
    /\ scaler_file = AbsentFile
    /\ metadata_file = AbsentFile
    /\ \E metrics_list \in FeatureInputs :
          last = [NoOp EXCEPT !.op = "input", !.data = metrics_list]
    /\ saved_by = NotSaved
    /\ ops = 0
    /\ threads = NoThreads
    /\ pipeline = NoPipeline

\* X = self.prepare_features(metrics_list)
PrepareFeatures ==
    /\ last.op = "input"
    /\ feature_names' = FeatureNamesAfter(feature_names, last.data)
    /\ last' = [last EXCEPT
                    !.op = "features",
                    !.had_names = feature_names # << >>,
                    !.results = prepare_features(feature_names, config, last.data)]
    /\ UNCHANGED << config_file, engine, config, model, scaler, is_trained,
                    thresholds, model_file, scaler_file,
                    metadata_file, saved_by, ops, threads, pipeline >>

NextFeatures == PrepareFeatures

SpecFeatures == InitFeatures /\ [][NextFeatures]_vars

\* ---------------------------------------------------------------------------
\* _identify_affected_metrics followed by _generate_insights, as
\* detect_anomalies calls them, on drawn snapshots and scores

\* the metrics the insight rules read
InsightNames ==
    << "response_time", "error_rate", "cpu_usage", "memory_usage",
       "document_processing_success_rate" >>

\* the values of a metric: at and around the limits the rules compare with
InsightValues(name) ==
    CASE name = "response_time" -> {2000, 3000, 3001}
      [] name = "error_rate"    -> {5, 10, 11}
      [] name = "cpu_usage"     -> {70, 85, 86}
      [] name = "memory_usage"  -> {80, 90, 91}
      [] name = "document_processing_success_rate" -> {89, 90}

\* snapshots holding every one of these metrics, in the order of InsightNames
FullInsightSnapshots ==
    { m \in [DOMAIN InsightNames -> UNION { { << InsightNames[i], v >> :
                                                 v \in InsightValues(InsightNames[i]) } :
                                               i \in DOMAIN InsightNames }] :
        \A i \in DOMAIN InsightNames : m[i][1] = InsightNames[i] }

\* the mapping without one key
Without(m, name) == LET Keep(x) == x[1] # name IN SelectSeq(m, Keep)

\* the mapping with its items inserted in the opposite order
Reversed(m) == [i \in DOMAIN m |-> m[Len(m) + 1 - i]]

\* full snapshots and those lacking one metric, in both insertion orders
InsightSnapshots ==
    LET some == FullInsightSnapshots
                   \cup { Without(m, InsightNames[i]) :
                             m \in FullInsightSnapshots, i \in DOMAIN InsightNames }
    IN  some \cup { Reversed(m) : m \in some }

\* anomaly scores (times 100) at and just below the limits of the three bands
InsightScores == {-71, -70, -51, -50, -31, -30}

InitInsights ==
    /\ config_file = "missing"
    /\ engine = "alive"
    /\ config = _get_default_config
    /\ model = InitMem.model
    /\ scaler = InitMem.scaler
    /\ is_trained = InitMem.is_trained
    /\ feature_names = InitMem.feature_names
    /\ thresholds = InitMem.thresholds
    /\ model_file = AbsentFile
    /\ scaler_file = AbsentFile
    /\ metadata_file = AbsentFile
    /\ \E metrics \in InsightSnapshots, score \in InsightScores :
          last = [NoOp EXCEPT !.op = "input", !.data = << metrics, score >>]
    /\ saved_by = NotSaved
    /\ ops = 0
    /\ threads = NoThreads
    /\ pipeline = NoPipeline

\* affected_metrics = self._identify_affected_metrics(current_metrics)
\* insights = self._generate_insights(current_metrics, anomaly_score, affected_metrics)
GenerateInsights ==
    /\ last.op = "input"
    /\ last' = [last EXCEPT
                    !.op = "insights",
                    !.results = _generate_insights(
                                    last.data[1], last.data[2],
                                    _identify_affected_metrics(last.data[1]))]
    /\ UNCHANGED << config_file, engine, config, model, scaler, is_trained,
                    feature_names, thresholds, model_file, scaler_file,
                    metadata_file, saved_by, ops, threads, pipeline >>

NextInsights == GenerateInsights

SpecInsights == InitInsights /\ [][NextInsights]_vars

----------------------------------------------------------------------------
(* MultifamilyProcessor.process_property (ai_processing/src/main.py) with   *)
(* its ProcessingMonitor (ai_processing/src/utils/logger.py).  The four     *)
(* components are outside the model: a stage either returns or raises an    *)
(* Exception, and the document processor returns a document or None for     *)
(* each path it was given.  An exception is named by the place that raised  *)
(* it.                                                                      *)

\* the engine plays no part: its variables stay as constructed
EngineIdle ==
    UNCHANGED << config_file, engine, config, model, scaler, is_trained,
                 feature_names, thresholds, model_file, scaler_file,
                 metadata_file, last, saved_by, ops, threads >>

\* a call with some of the four paths given, of which the document processor
\* will return None for some
InitPipeline ==
    /\ config_file = "missing"
    /\ engine = "none"
    /\ config = _get_default_config
    /\ model = InitMem.model
    /\ scaler = InitMem.scaler
    /\ is_trained = InitMem.is_trained
    /\ feature_names = InitMem.feature_names
    /\ thresholds = InitMem.thresholds
    /\ model_file = AbsentFile
    /\ scaler_file = AbsentFile
    /\ metadata_file = AbsentFile
    /\ last = NoOp
    /\ saved_by = NotSaved
    /\ ops = 0
    /\ threads = NoThreads
    /\ \E paths \in SUBSET DocTypes :
          \E unparsed \in SUBSET paths :
              pipeline = [NoPipeline EXCEPT !.paths = paths, !.unparsed = unparsed]

\* create_processing_monitor up to its yield: monitor = ProcessingMonitor(...),
\* and process_property enters its try block
P_Start ==
    /\ pipeline.pc = "idle"
    /\ pipeline' = [pipeline EXCEPT !.pc = "stage", !.next = 1]
    /\ EngineIdle

\* faulty variant: track_operation records the failure and does not re-raise
P_RunStage_swallow(ok, logged) ==
    /\ pipeline.pc = "stage"
    /\ LET name == Stages[pipeline.next]
           ran  == pipeline.trace \o << << "start", name >> >>
           on   == IF pipeline.next = Len(Stages)
                   THEN [pipeline EXCEPT !.pc = "compile"]
                   ELSE [pipeline EXCEPT !.next = @ + 1]
       IN  pipeline' =
              IF ok
              THEN [on EXCEPT
                       !.trace = ran \o << << "end", name >> >>,
                       !.processing_times = @ \cup {name},
                       !.files_processed =
                           IF pipeline.next = 1
                           THEN @ + Cardinality(pipeline.paths \ pipeline.unparsed) ELSE @,
                       !.files_failed =
                           IF pipeline.next = 1 THEN @ + Cardinality(pipeline.unparsed) ELSE @]
              ELSE [on EXCEPT
                       !.trace = ran \o << << "fail", name >> >>,
                       !.failures = Append(@, [operation |-> name, error_message |-> name]),
                       !.failure_files = IF logged THEN @ + 1 ELSE @]
    /\ EngineIdle

\* one with-block of process_property: track_operation starts the operation,
\* the stage runs (and, in the first stage, the file results are tracked);
\* when it returns the duration is stored, when it raises a failure record is
\* appended, written to its file if that can be done, and the exception is
\* re-raised into the except clause of process_property
P_RunStage(ok, logged) ==
    /\ pipeline.pc = "stage"
    /\ LET name == Stages[pipeline.next]
           ran  == pipeline.trace \o << << "start", name >> >>
       IN  pipeline' =
              IF ok
              THEN [pipeline EXCEPT
                       !.trace = ran \o << << "end", name >> >>,
                       !.processing_times = @ \cup {name},
                       !.files_processed =
                           IF pipeline.next = 1
                           THEN @ + Cardinality(pipeline.paths \ pipeline.unparsed) ELSE @,
                       !.files_failed =
                           IF pipeline.next = 1 THEN @ + Cardinality(pipeline.unparsed) ELSE @,
                       !.pc = IF pipeline.next = Len(Stages) THEN "compile" ELSE "stage",
                       !.next = IF pipeline.next = Len(Stages) THEN @ ELSE @ + 1]
              ELSE [pipeline EXCEPT
                       !.trace = ran \o << << "fail", name >> >>,
                       !.failures = Append(@, [operation |-> name, error_message |-> name]),
                       !.failure_files = IF logged THEN @ + 1 ELSE @,
                       !.error = name,
                       !.pc = "except"]
    /\ EngineIdle

\* the results are compiled (which generates a monitoring report) and written
\* to processing_results.json; the write can raise
P_Compile(ok) ==
    /\ pipeline.pc = "compile"
    /\ pipeline' =
          IF ok
          THEN [pipeline EXCEPT
                   !.reports = @ + 1,
                   !.results_file = << [status |-> "completed",
                                        documents_processed |-> Cardinality(pipeline.paths)] >>,
                   !.outcome = "returned",
                   !.pc = "finally"]
          ELSE [pipeline EXCEPT
                   !.reports = @ + 1,
                   !.error = "processing_results",
                   !.pc = "except"]
    /\ EngineIdle

\* except Exception as e: the error result is written to error_details.json
\* and e is raised again
P_HandleError ==
    /\ pipeline.pc = "except"
    /\ pipeline' = [pipeline EXCEPT
                       !.error_file = << [status |-> "failed", error |-> pipeline.error] >>,
                       !.outcome = "raised",
                       !.pc = "finally"]
    /\ EngineIdle

\* the finally clause of create_processing_monitor: monitor.generate_report()
P_Finalize ==
    /\ pipeline.pc = "finally"
    /\ pipeline' = [pipeline EXCEPT !.reports = @ + 1, !.pc = "done"]
    /\ EngineIdle

P_RunStageAny == \E ok \in BOOLEAN, logged \in BOOLEAN : P_RunStage(ok, logged)

P_CompileAny == \E ok \in BOOLEAN : P_Compile(ok)

NextPipeline ==
    \/ P_Start
    \/ P_RunStageAny
    \/ P_CompileAny
    \/ P_HandleError
    \/ P_Finalize

SpecPipeline == InitPipeline /\ [][NextPipeline]_vars

----------------------------------------------------------------------------
(* Two threads on one engine: one calls train_on_historical_data or         *)
(* update_model, the other detect_anomalies; each statement that reads or   *)
(* writes a field of the engine is a step of its own                        *)

\* the engine at the start: trained, and saved, on the first MaxHistory
\* snapshots of the history
StartEngine ==
    train_on_historical_data(InitMem, _get_default_config, NoFiles,
                             SubSeq(History, 1, Min(MaxHistory, Len(History))), "ok").st

InitConcurrent ==
    /\ config_file = "missing"
    /\ engine = "alive"
    /\ config = _get_default_config
    /\ model = StartEngine.model
    /\ scaler = StartEngine.scaler
    /\ is_trained = StartEngine.is_trained
    /\ feature_names = StartEngine.feature_names
    /\ thresholds = StartEngine.thresholds
    /\ model_file = SavedFiles.model_file
    /\ scaler_file = SavedFiles.scaler_file
    /\ metadata_file = SavedFiles.metadata_file
    /\ last = NoOp
    /\ saved_by = [valid |-> TRUE, mem |-> StartEngine]
    /\ ops = 0
    /\ threads = NoThreads
    /\ pipeline = NoPipeline

\* a call is between its first and its last statement
InCall(t) == t.pc \notin {"idle", "done"}

\* the trainer has taken a step; the calls overlap when the detector is in its call
SetTrainer(t) ==
    /\ UNCHANGED pipeline
    /\ threads' = [threads EXCEPT !.trainer = t,
                               !.overlap = @ \/ InCall(threads.detector)]

\* the detector has taken a step; the calls overlap when the trainer is in its call
SetDetector(d) ==
    /\ UNCHANGED pipeline
    /\ threads' = [threads EXCEPT !.detector = d,
                               !.overlap = @ \/ InCall(threads.trainer)]

\* the call ends with an exception
Raise(t, error) == [t EXCEPT !.pc = "done", !.raised = TRUE, !.error = error]

\* train_on_historical_data line 100, update_model line 333:
\* X = self.prepare_features(...)
T_Prepare(op, data) ==
    /\ threads.trainer.pc = "idle"
    /\ feature_names' = FeatureNamesAfter(feature_names, data)
    /\ SetTrainer([pc     |-> IF op = "train" THEN "new_model" ELSE "transform",
                   op     |-> op,
                   data   |-> data,
                   X      |-> prepare_features(feature_names, config, data),
                   Xs     |-> << >>,
                   scores |-> << >>,
                   key    |-> 1,
                   raised |-> FALSE,
                   error  |-> ""])
    /\ UNCHANGED << config_file, engine, config, model, scaler, is_trained, thresholds,
                    model_file, scaler_file, metadata_file, last, saved_by, ops >>

\* line 103: self.model = IsolationForest(...)
T_NewModel ==
    /\ threads.trainer.pc = "new_model"
    /\ model' = UnfittedModel
    /\ SetTrainer([threads.trainer EXCEPT !.pc = "fit_scaler"])
    /\ UNCHANGED << config_file, engine, config, scaler, is_trained, feature_names,
                    thresholds, model_file, scaler_file, metadata_file, last,
                    saved_by, ops >>

\* line 112: X_scaled = self.scaler.fit_transform(X)
T_FitScaler ==
    /\ threads.trainer.pc = "fit_scaler"
    /\ IF threads.trainer.X = << >>
       THEN /\ scaler' = UnfittedScaler
            /\ SetTrainer(Raise(threads.trainer, "ValueError"))
       ELSE /\ scaler' = ScalerFit(threads.trainer.X)
            /\ SetTrainer([threads.trainer EXCEPT
                              !.pc = "fit_model",
                              !.Xs = ScalerTransform(ScalerFit(threads.trainer.X),
                                                     threads.trainer.X)])
    /\ UNCHANGED << config_file, engine, config, model, is_trained, feature_names,
                    thresholds, model_file, scaler_file, metadata_file, last,
                    saved_by, ops >>

\* line 113: self.model.fit(X_scaled)
T_FitModel ==
    /\ threads.trainer.pc = "fit_model"
    /\ model' = ModelFit(config, threads.trainer.Xs)
    /\ SetTrainer([threads.trainer EXCEPT !.pc = "mark"])
    /\ UNCHANGED << config_file, engine, config, scaler, is_trained, feature_names,
                    thresholds, model_file, scaler_file, metadata_file, last,
                    saved_by, ops >>

\* line 115: self.is_trained = True
T_Mark ==
    /\ threads.trainer.pc = "mark"
    /\ is_trained' = TRUE
    /\ SetTrainer([threads.trainer EXCEPT !.pc = "scores"])
    /\ UNCHANGED << config_file, engine, config, model, scaler, feature_names,
                    thresholds, model_file, scaler_file, metadata_file, last,
                    saved_by, ops >>

\* update_model line 334: X_scaled = self.scaler.transform(X)
T_Transform ==
    /\ threads.trainer.pc = "transform"
    /\ SetTrainer(IF ~scaler.fitted THEN Raise(threads.trainer, "NotFittedError")
                  ELSE IF threads.trainer.X = << >> THEN Raise(threads.trainer, "ValueError")
                  ELSE [threads.trainer EXCEPT
                           !.pc = "scores",
                           !.Xs = ScalerTransform(scaler, threads.trainer.X)])
    /\ UNCHANGED << config_file, engine, config, model, scaler, is_trained,
                    feature_names, thresholds, model_file, scaler_file,
                    metadata_file, last, saved_by, ops >>

\* lines 118 and 335: scores = self.model.decision_function(X_scaled)
T_Scores ==
    /\ threads.trainer.pc = "scores"
    /\ SetTrainer(IF model.state = "none" THEN Raise(threads.trainer, "AttributeError")
                  ELSE IF model.state # "fitted"
                       THEN Raise(threads.trainer, "NotFittedError")
                  ELSE [threads.trainer EXCEPT
                           !.pc = "calibrate",
                           !.scores = decision_function(model, threads.trainer.Xs)])
    /\ UNCHANGED << config_file, engine, config, model, scaler, is_trained,
                    feature_names, thresholds, model_file, scaler_file,
                    metadata_file, last, saved_by, ops >>

\* lines 131-133, one round of the loop: self.thresholds[name] = threshold
T_Calibrate ==
    /\ threads.trainer.pc = "calibrate"
    /\ LET name == ThresholdOrder[threads.trainer.key]
       IN  thresholds' =
               [n \in (DOMAIN thresholds) \cup {name} |->
                   IF n = name
                   THEN Percentile(threads.trainer.scores, ThresholdPercentile(name))
                   ELSE thresholds[n]]
    /\ SetTrainer(IF threads.trainer.key = Len(ThresholdOrder)
                  THEN [threads.trainer EXCEPT !.pc = "save"]
                  ELSE [threads.trainer EXCEPT !.key = @ + 1])
    /\ UNCHANGED << config_file, engine, config, model, scaler, is_trained,
                    feature_names, model_file, scaler_file, metadata_file, last,
                    saved_by, ops >>

\* lines 122 and 339: self._save_model(), all three writes succeeding
T_Save ==
    /\ threads.trainer.pc = "save"
    /\ SetFiles(_save_model(Mem, config, Files, "ok"))
    /\ saved_by' = [valid |-> TRUE, mem |-> Mem]
    /\ SetTrainer([threads.trainer EXCEPT !.pc = "done"])
    /\ UNCHANGED << config_file, engine, config, model, scaler, is_trained,
                    feature_names, thresholds, last, ops >>

\* the fields of the engine a detect call has read so far: the scaler it
\* transformed with, the model it scored and predicted with, the thresholds it
\* classified with
\* (each a sequence: empty while unread, then the one value read)
NothingRead == [scaler |-> << >>, model |-> << >>, predict_model |-> << >>,
                thresholds |-> << >>]

\* detect_anomalies lines 139-140: if not self.is_trained: self._load_trained_model()
D_Check(metrics) ==
    /\ threads.detector.pc = "idle"
    /\ LET load == IF is_trained THEN [raised |-> FALSE, st |-> Mem]
                   ELSE _load_trained_model(Mem, Files)
           d    == [pc         |-> "prepare",
                    metrics    |-> metrics,
                    X          |-> << >>,
                    Xs         |-> << >>,
                    score      |-> 0,
                    is_anomaly |-> FALSE,
                    severity   |-> "",
                    raised     |-> FALSE,
                    error      |-> "",
                    result     |-> << >>,
                    reads      |-> NothingRead]
       IN  /\ SetMem(load.st)
           /\ SetDetector(IF load.raised THEN Raise(d, "RuntimeError") ELSE d)
    /\ UNCHANGED << config_file, engine, config, model_file, scaler_file,
                    metadata_file, last, saved_by, ops >>

\* line 142: X = self.prepare_features([current_metrics])
D_Prepare ==
    /\ threads.detector.pc = "prepare"
    /\ feature_names' = FeatureNamesAfter(feature_names, << threads.detector.metrics >>)
    /\ SetDetector([threads.detector EXCEPT
                       !.pc = "transform",
                       !.X = prepare_features(feature_names, config,
                                              << threads.detector.metrics >>)])
    /\ UNCHANGED << config_file, engine, config, model, scaler, is_trained, thresholds,
                    model_file, scaler_file, metadata_file, last, saved_by, ops >>

\* line 143: X_scaled = self.scaler.transform(X)
D_Transform ==
    /\ threads.detector.pc = "transform"
    /\ SetDetector(IF ~scaler.fitted
                   THEN Raise([threads.detector EXCEPT !.reads.scaler = <<scaler>>],
                              "NotFittedError")
                   ELSE [threads.detector EXCEPT
                            !.pc = "score",
                            !.reads.scaler = <<scaler>>,
                            !.Xs = ScalerTransform(scaler, threads.detector.X)])
    /\ UNCHANGED << config_file, engine, config, model, scaler, is_trained,
                    feature_names, thresholds, model_file, scaler_file,
                    metadata_file, last, saved_by, ops >>

\* line 146: anomaly_score = self.model.decision_function(X_scaled)[0]
D_Score ==
    /\ threads.detector.pc = "score"
    /\ SetDetector(IF model.state # "fitted"
                   THEN Raise([threads.detector EXCEPT !.reads.model = <<model>>],
                              IF model.state = "none" THEN "AttributeError"
                              ELSE "NotFittedError")
                   ELSE [threads.detector EXCEPT
                            !.pc = "predict",
                            !.reads.model = <<model>>,
                            !.score = decision_function(model, threads.detector.Xs)[1]])
    /\ UNCHANGED << config_file, engine, config, model, scaler, is_trained,
                    feature_names, thresholds, model_file, scaler_file,
                    metadata_file, last, saved_by, ops >>

\* line 147: is_anomaly = self.model.predict(X_scaled)[0] == -1
D_Predict ==
    /\ threads.detector.pc = "predict"
    /\ SetDetector(IF model.state # "fitted"
                   THEN Raise([threads.detector EXCEPT !.reads.predict_model = <<model>>],
                              IF model.state = "none" THEN "AttributeError"
                              ELSE "NotFittedError")
                   ELSE [threads.detector EXCEPT
                            !.pc = "severity",
                            !.reads.predict_model = <<model>>,
                            !.is_anomaly = predict(model, threads.detector.Xs)[1] = -1])
    /\ UNCHANGED << config_file, engine, config, model, scaler, is_trained,
                    feature_names, thresholds, model_file, scaler_file,
                    metadata_file, last, saved_by, ops >>

\* faulty variant: the severity is taken from the configured thresholds
D_Severity_configured ==
    /\ threads.detector.pc = "severity"
    /\ SetDetector([threads.detector EXCEPT
                       !.pc = "finish",
                       !.reads.thresholds = <<thresholds>>,
                       !.severity = _determine_severity(config.severity_thresholds,
                                                        threads.detector.score)])
    /\ UNCHANGED << config_file, engine, config, model, scaler, is_trained,
                    feature_names, thresholds, model_file, scaler_file,
                    metadata_file, last, saved_by, ops >>

\* line 150: severity = self._determine_severity(anomaly_score)
D_Severity ==
    /\ threads.detector.pc = "severity"
    /\ SetDetector([threads.detector EXCEPT
                       !.pc = "finish",
                       !.reads.thresholds = <<thresholds>>,
                       !.severity = _determine_severity(thresholds,
                                                        threads.detector.score)])
    /\ UNCHANGED << config_file, engine, config, model, scaler, is_trained,
                    feature_names, thresholds, model_file, scaler_file,
                    metadata_file, last, saved_by, ops >>

\* lines 153-166: affected metrics, insights, confidence and the returned dict
D_Finish ==
    /\ threads.detector.pc = "finish"
    /\ LET d        == threads.detector
           affected == _identify_affected_metrics(d.metrics)
       IN  SetDetector([d EXCEPT
               !.pc = "done",
               !.result = << [is_anomaly       |-> d.is_anomaly,
                              severity         |-> d.severity,
                              anomaly_score    |-> d.score,
                              affected_metrics |-> affected,
                              insights         |-> _generate_insights(d.metrics, d.score,
                                                                      affected),
                              confidence       |-> _calculate_confidence(d.score)] >>])
    /\ UNCHANGED << config_file, engine, config, model, scaler, is_trained,
                    feature_names, thresholds, model_file, scaler_file,
                    metadata_file, last, saved_by, ops >>

TrainerStart ==
    \E op \in {"train", "update"}, data \in TrainSets : T_Prepare(op, data)

DetectorStart == \E metrics \in DetectSnapshots : D_Check(metrics)

NextConcurrent ==
    \/ TrainerStart \/ T_NewModel \/ T_FitScaler \/ T_FitModel \/ T_Mark
    \/ T_Transform \/ T_Scores \/ T_Calibrate \/ T_Save
    \/ DetectorStart \/ D_Prepare \/ D_Transform \/ D_Score \/ D_Predict
    \/ D_Severity \/ D_Finish

SpecConcurrent == InitConcurrent /\ [][NextConcurrent]_vars

----------------------------------------------------------------------------
(* Claims *)

\* a call that calibrated the thresholds has just returned
Calibrated == last.op \in {"train", "update"} /\ last.status = "ok"

\* the decision_function scores of the rows the model was fitted on
TrainScores(m) == [i \in DOMAIN m.samples |-> m.samples[i] - m.offset]

\* C1: after every threshold calibration (by train_on_historical_data or by
\* update_model) the stored thresholds satisfy
\* critical <= high <= medium <= low.
C1_ThresholdsOrdered ==
    Calibrated =>
        /\ thresholds["critical"] <= thresholds["high"]
        /\ thresholds["high"] <= thresholds["medium"]
        /\ thresholds["medium"] <= thresholds["low"]

\* C2: _determine_severity returns CRITICAL exactly when score <= critical,
\* HIGH exactly when critical < score <= high, MEDIUM exactly when the score is
\* above critical and high and <= medium, LOW exactly when it is above those
\* three and <= low, and NORMAL exactly when it is above all four; a score
\* equal to a threshold is in the more severe bucket.
C2_SeverityBuckets ==
    last.op = "severity" =>
        LET s   == last.data[1] * 100
            sev == last.results[1]
            c   == thresholds["critical"]
            h   == thresholds["high"]
            m   == thresholds["medium"]
            l   == thresholds["low"]
        IN  /\ (sev = "CRITICAL") <=> (s <= c)
            /\ (sev = "HIGH")     <=> (s > c /\ s <= h)
            /\ (sev = "MEDIUM")   <=> (s > c /\ s > h /\ s <= m)
            /\ (sev = "LOW")      <=> (s > c /\ s > h /\ s > m /\ s <= l)
            /\ (sev = "NORMAL")   <=> (s > c /\ s > h /\ s > m /\ s > l)

\* a score equal to the medium threshold, above critical and high, was classified
C2_Witness ==
    /\ last.op = "severity"
    /\ last.data[1] * 100 = thresholds["medium"]
    /\ last.data[1] * 100 > thresholds["high"]
    /\ last.data[1] * 100 > thresholds["critical"]
    /\ last.results[1] = "MEDIUM"

\* the snapshot holds all ten metrics, each within its normal range
AllTenInRange(metrics) ==
    /\ SnapKeys(metrics) = DOMAIN normal_ranges
    /\ \A i \in DOMAIN metrics : InRange(metrics[i][2], normal_ranges[metrics[i][1]])

\* the thresholds are those calibrated on the model's own training scores
TrainedThresholds ==
    /\ model.state = "fitted"
    /\ thresholds = _calculate_dynamic_thresholds(EmptyDict, TrainScores(model))

\* the score lies between the 25th and the 75th percentile of the training scores
InBulk(score) ==
    /\ score * 100 >= Percentile(TrainScores(model), 25)
    /\ score * 100 <= Percentile(TrainScores(model), 75)

\* C3: for a snapshot whose ten metrics are all within their normal ranges
\* and whose score lies in the bulk of the training scores (here: of at least
\* three training rows), detect_anomalies on the engine trained on that data
\* returns severity NORMAL.
C3_NormalSnapshotIsNormal ==
    ( /\ last.op = "detect"
      /\ last.status = "ok"
      /\ AllTenInRange(last.data[1])
      /\ TrainedThresholds
      /\ Len(model.samples) >= 3
      /\ InBulk(last.results[1].anomaly_score) )
    => last.results[1].severity = "NORMAL"

\* C4: detect_anomalies on an engine that is not trained first attempts to
\* load the persisted model; when the load fails the call raises the
\* model-unavailable RuntimeError, returns no result, leaves the engine
\* untrained and the files alone, and the only model or scaler it can leave in
\* the engine is the one unpickled from disk: none is fitted to the snapshot.
C4_DetectUntrainedFailsClosed ==
    [][ (last'.op = "detect" /\ ~is_trained) =>
          /\ last'.loaded \in {"ok", "failed"}
          /\ last'.loaded = "failed" =>
                /\ last'.status = "error"
                /\ last'.error = "RuntimeError"
                /\ last'.results = << >>
                /\ ~is_trained'
                /\ model' = model \/ (model_file.kind = "ok" /\ model' = Unpickle(model_file))
                /\ scaler' = scaler \/ (scaler_file.kind = "ok" /\ scaler' = Unpickle(scaler_file))
                /\ thresholds' = thresholds
                /\ Files' = Files ]_vars

\* detect on an untrained engine whose persisted scaler cannot be loaded
C4_Witness ==
    /\ last.op = "detect"
    /\ last.loaded = "failed"
    /\ last.error = "RuntimeError"
    /\ model_file.kind = "ok"
    /\ scaler_file.kind # "ok"

\* C5: train_on_historical_data (also reached through update_model with
\* retrain=true) called with an empty sequence raises; it does not set
\* is_trained and writes no file.
C5_EmptyTrainingFails ==
    [][ ( /\ last'.op \in {"train", "update"}
          /\ last'.op = "update" => last'.retrain
          /\ last'.data = << >> ) =>
          /\ last'.status = "error"
          /\ last'.error = "ValueError"
          /\ last'.saved = "none"
          /\ is_trained' = is_trained
          /\ Files' = Files ]_vars

\* train on the empty list has raised on a fresh engine
C5_Witness ==
    /\ last.op = "train"
    /\ last.data = << >>
    /\ last.status = "error"
    /\ ~is_trained

\* the raw decision_function score of a snapshot under the engine's fields
RawScore(st, cfg, metrics) ==
    decision_function(st.model,
        ScalerTransform(st.scaler, prepare_features(st.feature_names, cfg, << metrics >>)))[1]

\* the engine holds a fitted model and a fitted scaler and is marked trained
Usable(st) == st.is_trained /\ st.model.state = "fitted" /\ st.scaler.fitted

C7_BatchIsMapOfDetect ==
    [][ (last'.op = "batch" /\ Usable(Mem)) =>
          /\ last'.status = "ok"
          /\ Len(last'.results) = Len(last'.data)
          /\ \A i \in DOMAIN last'.data :
                << last'.results[i] >> =
                    detect_anomalies(Mem, config, Files, last'.data[i]).result ]_vars

\* a batch of two different snapshots returned two different results
C7_Witness ==
    /\ last.op = "batch"
    /\ last.status = "ok"
    /\ Len(last.data) = 2
    /\ last.data[1] # last.data[2]
    /\ Len(last.results) = 2
    /\ last.results[1] # last.results[2]

\* a full training has just completed
Retrained ==
    /\ last.op \in {"train", "update"}
    /\ last.op = "update" => last.retrain
    /\ last.status = "ok"

\* what train_on_historical_data(data) leaves in a newly constructed engine
FreshTrain(cfg, data) ==
    train_on_historical_data(InitMem, cfg,
        [model_file |-> AbsentFile, scaler_file |-> AbsentFile, metadata_file |-> AbsentFile],
        data, "ok").st

\* C8: after a successful train(B), or update_model(B, retrain=true), on an
\* engine in any state, the model, scaler, thresholds, feature names and
\* trained flag are those train(B) leaves in a fresh engine with the same
\* configuration.
C8_RetrainReplacesState == Retrained => Mem = FreshTrain(config, last.data)

\* a successful retraining of an engine that was trained, on other data than
\* the data of the model that is on disk
C8_Witness ==
    /\ Retrained
    /\ last.was_trained
    /\ last.saved = "failed"
    /\ model_file.kind = "ok"
    /\ Unpickle(model_file) # model
    /\ Unpickle(model_file).state = "fitted"

\* C9: when the three files were written by one successful save, an untrained
\* engine whose detect_anomalies loads them ends with the model, scaler,
\* feature names and thresholds of the engine that saved them, and returns what
\* that engine returns for every snapshot.
C9_LoadRestoresSaved ==
    (last.op = "detect" /\ last.loaded = "ok" /\ saved_by.valid) =>
        /\ model = saved_by.mem.model
        /\ scaler = saved_by.mem.scaler
        /\ feature_names = saved_by.mem.feature_names
        /\ thresholds = saved_by.mem.thresholds
        /\ \A x \in DetectSnapshots :
              detect_anomalies(Mem, config, Files, x).result
                  = detect_anomalies(saved_by.mem, config, Files, x).result

\* an untrained engine has loaded, in detect, the files of a complete save
\* whose four thresholds are not all equal, and returned a result
C9_Witness ==
    /\ last.op = "detect"
    /\ last.loaded = "ok"
    /\ last.status = "ok"
    /\ saved_by.valid
    /\ ~last.was_trained
    /\ thresholds["low"] # thresholds["critical"]

\* C10: constructing the engine never fails because of its configuration
\* file: when the file is missing, malformed or unreadable, _load_config
\* returns the default configuration.
C10_ConfigNeverFatal ==
    last.op = "init" =>
        /\ last.status = "ok"
        /\ engine = "alive"
        /\ config_file \in {"missing", "malformed", "unreadable"} =>
              config = _get_default_config

\* the scores update_model(retrain=False) calibrates on: those of new_data under
\* the engine's scaler and model
UpdateScores(st, cfg, new_data) ==
    decision_function(st.model,
        ScalerTransform(st.scaler, prepare_features(st.feature_names, cfg, new_data)))

\* C11: when the write of the model, scaler or metadata file fails during
\* train or update (of a trained engine), the call returns normally and the
\* in-memory state is the new one: the engine is trained, holds the fitted model
\* and scaler and the newly calibrated thresholds, and detect_anomalies of any
\* snapshot returns a result computed from them, without loading and whatever
\* the files hold.
C11_SaveFailureKeepsMemory ==
    ( /\ last.op \in {"train", "update"}
      /\ last.saved = "failed"
      /\ last.op = "train" \/ last.retrain \/ last.was_trained )
    => /\ last.status = "ok"
       /\ is_trained
       /\ model.state = "fitted"
       /\ scaler.fitted
       /\ (last.op = "train" \/ last.retrain) => Mem = FreshTrain(config, last.data)
       /\ (last.op = "update" /\ ~last.retrain) =>
              \A n \in ThresholdNames :
                  thresholds[n] = Percentile(UpdateScores(Mem, config, last.data),
                                             ThresholdPercentile(n))
       /\ \A x \in DetectSnapshots :
              LET d == detect_anomalies(Mem, config, Files, x)
              IN  /\ ~d.raised
                  /\ d.loaded = "none"
                  /\ d.result = detect_anomalies(Mem, config, NoFiles, x).result
                  /\ d.result[1].anomaly_score = RawScore(Mem, config, x)
                  /\ d.result[1].severity
                        = _determine_severity(thresholds, RawScore(Mem, config, x))

\* an update of a trained engine whose metadata write failed: the thresholds in
\* memory are not on disk
C11_Witness ==
    /\ last.op = "update"
    /\ ~last.retrain
    /\ last.saved = "failed"
    /\ last.was_trained
    /\ metadata_file.kind = "corrupt"
    /\ is_trained
    /\ ~TrainedThresholds

\* one of the three persisted artifacts is missing or cannot be deserialized
SomeFileBad ==
    model_file.kind # "ok" \/ scaler_file.kind # "ok" \/ metadata_file.kind # "ok"

\* C12: when any one of the model, scaler and metadata files is missing or
\* cannot be deserialized, the load of an untrained engine raises the
\* model-unavailable RuntimeError and leaves is_trained false, and as long as
\* the engine is untrained and a file is bad every detect_anomalies raises and
\* returns no result.
C12_LoadFailsClosed ==
    /\ (last.op = "detect" /\ ~last.was_trained /\ SomeFileBad) =>
          /\ last.loaded = "failed"
          /\ last.status = "error"
          /\ last.error = "RuntimeError"
          /\ last.results = << >>
          /\ ~is_trained
    /\ (~is_trained /\ SomeFileBad) =>
          /\ _load_trained_model(Mem, Files).raised
          /\ ~_load_trained_model(Mem, Files).st.is_trained
          /\ \A x \in DetectSnapshots :
                /\ detect_anomalies(Mem, config, Files, x).raised
                /\ detect_anomalies(Mem, config, Files, x).error = "RuntimeError"
                /\ detect_anomalies(Mem, config, Files, x).result = << >>

\* a detect whose load took the model and the scaler from disk and then found
\* no metadata file
C12_Witness ==
    /\ last.op = "detect"
    /\ last.loaded = "failed"
    /\ model_file.kind = "ok"
    /\ scaler_file.kind = "ok"
    /\ metadata_file.kind = "absent"
    /\ model.state = "fitted"
    /\ scaler.fitted
    /\ ~is_trained

\* C13: for every value and the normal range of every canonical metric,
\* _calculate_deviation returns a percentage >= 0, and it is 0 exactly when
\* min <= value <= max (no upper limit when max is infinite).
C13_DeviationNonNegative ==
    last.op = "deviation" =>
        LET value == last.data[2]
            r     == normal_ranges[last.data[1]]
            dev   == last.results[1]
        IN  /\ dev.den > 0
            /\ dev.num >= 0
            /\ (dev.num = 0) <=> (r.min <= value /\ (r.bounded => value <= r.max))

\* the deviation of a success rate below its minimum of 95 was computed: a
\* positive fraction of 95
C13_Witness ==
    /\ last.op = "deviation"
    /\ last.data[1] = "document_processing_success_rate"
    /\ last.data[2] < 95
    /\ last.results[1].num > 0
    /\ last.results[1].den = 95

\* C14: for every score, _calculate_confidence returns min(|score|, 1.0)
\* rounded to 3 decimals: a whole number of thousandths in [0, 1] that is
\* within half a thousandth of min(|score|, 1.0); and for two scores with
\* |s1| <= |s2| the confidence of s1 is <= the confidence of s2.
C14_ConfidenceBounded ==
    last.op = "confidence" =>
        /\ \A i \in 1..2 :
              LET capped == Min(Abs(last.data[i]), ScoreUnits)
                  c      == last.results[i]
              IN  /\ c \in 0..1000
                  /\ 2 * Abs(c * ScoreUnits - 1000 * capped) <= ScoreUnits
        /\ Abs(last.data[1]) <= Abs(last.data[2]) => last.results[1] <= last.results[2]

\* a negative score whose confidence had to be rounded, and a score beyond 1.0
\* whose confidence is capped
C14_Witness ==
    /\ last.op = "confidence"
    /\ last.data[1] < 0
    /\ last.results[1] * ScoreUnits # 1000 * Abs(last.data[1])
    /\ last.results[1] \in 1..999
    /\ last.data[2] > ScoreUnits
    /\ last.results[2] = 1000

\* the metric is canonical, present in the snapshot, and its value is below the
\* minimum or above the (finite) maximum of its normal range
FlaggedByRange(m, name) ==
    /\ name \in DOMAIN normal_ranges
    /\ name \in SnapKeys(m)
    /\ \/ SnapGet(m, name, 0) < normal_ranges[name].min
       \/ normal_ranges[name].bounded /\ SnapGet(m, name, 0) > normal_ranges[name].max

\* C15: affected_metrics holds a record for metric m if and only if m is one
\* of the ten canonical metrics, is present in the snapshot and its value lies
\* outside its inclusive normal range (so a value at a bound is not flagged),
\* each such metric once and with its value; a snapshot with all ten metrics
\* in range yields the empty list.
C15_AffectedIffOutOfRange ==
    last.op = "affected" =>
        LET m   == last.data[1]
            aff == last.results
        IN  /\ \A name \in SnapKeys(m) \cup DOMAIN normal_ranges :
                  (\E i \in DOMAIN aff : aff[i].metric = name) <=> FlaggedByRange(m, name)
            /\ \A i \in DOMAIN aff :
                  /\ aff[i].metric \in SnapKeys(m)
                  /\ aff[i].value = SnapGet(m, aff[i].metric, 0)
            /\ \A i \in DOMAIN aff, j \in DOMAIN aff : aff[i].metric = aff[j].metric => i = j
            /\ ( /\ SnapKeys(m) = DOMAIN normal_ranges
                 /\ \A name \in DOMAIN normal_ranges : ~FlaggedByRange(m, name) )
               => aff = << >>

\* a snapshot with cpu_usage exactly at its upper bound and a success rate
\* under its minimum gave one record, for the success rate
C15_Witness ==
    /\ last.op = "affected"
    /\ SnapKeys(last.data[1]) = {"cpu_usage", "document_processing_success_rate"}
    /\ SnapGet(last.data[1], "cpu_usage", 0) = 70
    /\ Len(last.results) = 1
    /\ last.results[1].metric = "document_processing_success_rate"

\* the same dict with its keys inserted in another order: reversed, or with two
\* neighbouring keys exchanged
Reorderings(m) ==
    { [i \in DOMAIN m |-> m[Len(m) + 1 - i]] }
        \cup { [i \in DOMAIN m |-> IF i = k THEN m[k + 1]
                                    ELSE IF i = k + 1 THEN m[k] ELSE m[i]] :
                 k \in 1..(Len(m) - 1) }

\* C16: for a trained engine, a snapshot and the same metric-to-value mapping
\* with its keys in another order give the same DetectionResult: score,
\* severity, and the affected_metrics and insights lists compared as ordered
\* lists.
C16_KeyOrderIrrelevant ==
    (last.op = "detect" /\ last.status = "ok") =>
        \A y \in Reorderings(last.data[1]) :
            detect_anomalies(Mem, config, Files, y).result = last.results

\* C17: once the engine's feature-name list is set, no later call on that
\* engine (train, detect with its on-demand load, batch detect, update, and
\* the prepare_features calls they make) changes it, whatever keys the
\* snapshots carry.
C17_FeatureNamesFixed ==
    [][ (feature_names # << >> /\ last'.op # "init") =>
            feature_names' = feature_names ]_vars

\* an untrained engine that already had its feature names (from an update that
\* failed) has loaded the persisted metadata in a detect of a snapshot with
\* other keys
C17_Witness ==
    /\ last.op = "detect"
    /\ last.loaded = "ok"
    /\ last.had_names
    /\ "disk_io" \in SnapKeys(last.data[1])
    /\ feature_names = CanonicalFeatureNames

\* what the trainer's call does when it runs alone, from the start
SerialCall(t) ==
    IF t.op = "train"
    THEN train_on_historical_data(StartEngine, config, SavedFiles, t.data, "ok")
    ELSE update_model(StartEngine, config, SavedFiles, t.data, FALSE, "ok")

\* how a detect call ended: whether it raised, with what, and what it returned
Outcome(d) == [raised |-> d.raised, error |-> d.error, result |-> d.result]

\* how detect of the snapshot ends when it runs alone, before the trainer's
\* call or after it
SerialOutcomes(metrics) ==
    { Outcome(detect_anomalies(StartEngine, config, SavedFiles, metrics)) }
        \cup IF threads.trainer.pc = "idle" THEN {}
             ELSE { Outcome(detect_anomalies(SerialCall(threads.trainer).st, config,
                                             SerialCall(threads.trainer).files, metrics)) }

\* everything the call has read is a field of the engine st
ReadsFrom(r, st) ==
    /\ r.scaler \in {<< >>, <<st.scaler>>}
    /\ r.model \in {<< >>, <<st.model>>}
    /\ r.predict_model \in {<< >>, <<st.model>>}
    /\ r.thresholds \in {<< >>, <<st.thresholds>>}

\* a detect has ended having read a scaler, a model and thresholds that are
\* not all those of the engine before the trainer's call, nor all those of the
\* engine after it
TornDetect ==
    /\ threads.detector.pc = "done"
    /\ ~ReadsFrom(threads.detector.reads, StartEngine)
    /\ \/ threads.trainer.pc = "idle"
       \/ ~ReadsFrom(threads.detector.reads, SerialCall(threads.trainer).st)

\* C18: training and detecting concurrently on one engine is unsafe: a detect
\* whose steps interleave with those of train_on_historical_data or
\* update_model can compute its result from a scaler, a model and thresholds
\* that do not all come from one completed train or update, or meet a model
\* not yet fitted, and can end in a way that the engine gives neither before
\* nor after the trainer's call (C18_Witness is such an interleaving).
\* Without interleaving this does not happen: a call that ran alone leaves
\* what the call as a whole leaves, a detect ends otherwise than serially only
\* after such mixed reads, and mixed reads occur only when the two calls
\* overlapped.
C18_TornOnlyWhenInterleaved ==
    /\ (threads.trainer.pc = "done" /\ threads.detector.pc = "idle") =>
          /\ Mem = SerialCall(threads.trainer).st
          /\ Files = SerialCall(threads.trainer).files
          /\ threads.trainer.raised = SerialCall(threads.trainer).raised
          /\ threads.trainer.error = SerialCall(threads.trainer).error
    /\ ( /\ threads.detector.pc = "done"
         /\ Outcome(threads.detector) \notin SerialOutcomes(threads.detector.metrics) )
       => TornDetect
    /\ TornDetect => threads.overlap

\* a detect that overlapped a train_on_historical_data call has returned a
\* result, computed from mixed reads, that neither the engine before the call
\* nor the engine after it gives
C18_Witness ==
    /\ TornDetect
    /\ ~threads.detector.raised
    /\ Outcome(threads.detector) \notin SerialOutcomes(threads.detector.metrics)
    /\ threads.trainer.op = "train"
    /\ threads.trainer.pc = "done"
    /\ ~threads.trainer.raised

\* what a detect call gives back to its caller
DetectOutcome(r) == [raised |-> r.raised, error |-> r.error, result |-> r.result]

\* C19: detect_anomalies (alone or in a batch) on an engine that is already
\* trained changes neither the model, the scaler, the thresholds, the
\* feature-name list, the trained flag nor any persisted file, so what a later
\* detect gives for any snapshot is what it would have given before the call.
C19_DetectIsSideEffectFree ==
    [][ (last'.op \in {"detect", "batch"} /\ is_trained) =>
           /\ Mem' = Mem
           /\ Files' = Files
           /\ \A metrics \in DetectSnapshots :
                 DetectOutcome(detect_anomalies(Mem', config', Files', metrics))
                    = DetectOutcome(detect_anomalies(Mem, config, Files, metrics)) ]_vars

\* a detect on an already trained engine has returned a result
C19_Witness ==
    /\ last.op = "detect"
    /\ last.was_trained
    /\ last.status = "ok"
    /\ is_trained
    /\ model.state = "fitted"

\* the rows of scores in ascending order
SortedScores(scores) ==
    CHOOSE t \in [DOMAIN scores -> { scores[i] : i \in DOMAIN scores }] :
        /\ \A i, j \in DOMAIN t : i <= j => t[i] <= t[j]
        /\ \A v \in { scores[i] : i \in DOMAIN scores } :
              Cardinality({ i \in DOMAIN t : t[i] = v })
                 = Cardinality({ i \in DOMAIN scores : scores[i] = v })

\* the p-th percentile of scores, times 100: position (n - 1) * p / 100 of the
\* sorted rows, interpolated linearly between the two neighbouring rows
LinearPercentile(scores, p) ==
    LET t == SortedScores(scores)
        n == Len(scores)
        i == ((n - 1) * p) \div 100
        f == ((n - 1) * p) % 100
    IN  IF i + 2 <= n THEN 100 * t[i + 1] + f * (t[i + 2] - t[i + 1])
        ELSE 100 * t[i + 1]

\* C20: after a calibration the thresholds low, medium, high and critical are
\* the 75th, 85th, 95th and 99th percentile of the scores it was given, whatever
\* the thresholds were before: all four keys are overwritten on every call.
C20_CalibrationOverwritesAll ==
    last.op = "calibrate" =>
        /\ ThresholdNames \subseteq DOMAIN thresholds
        /\ thresholds["low"]      = LinearPercentile(last.data, 75)
        /\ thresholds["medium"]   = LinearPercentile(last.data, 85)
        /\ thresholds["high"]     = LinearPercentile(last.data, 95)
        /\ thresholds["critical"] = LinearPercentile(last.data, 99)

\* a calibration found all four thresholds set by an earlier one and replaced
\* every one of them by another value, the four new values being distinct
C20_Witness ==
    /\ last.op = "calibrate"
    /\ ThresholdNames \subseteq DOMAIN last.results[1]
    /\ \A n \in ThresholdNames : thresholds[n] # last.results[1][n]
    /\ \A n, m \in ThresholdNames : n # m => thresholds[n] # thresholds[m]

\* snapshot.get(name, 0): the value stored under the key, 0 without the key
ValueOrZero(snapshot, name) ==
    IF \E k \in DOMAIN snapshot : snapshot[k][1] = name
    THEN snapshot[CHOOSE k \in DOMAIN snapshot : snapshot[k][1] = name][2]
    ELSE 0

\* the configured weight of a metric (in tenths), 1.0 without one
WeightOrOne(cfg, name) ==
    IF name \in DOMAIN cfg.feature_weights THEN cfg.feature_weights[name] ELSE 10

\* C21: prepare_features gives one row per snapshot, in order, with one entry
\* per name of the engine's feature-name list: the snapshot's value for that
\* name, 0 when the snapshot lacks it, times the configured weight of the name,
\* 1.0 when it has none; keys outside the list appear nowhere in the row.
C21_FeatureRows ==
    last.op = "features" =>
        /\ DOMAIN last.results = DOMAIN last.data
        /\ \A i \in DOMAIN last.data :
              /\ DOMAIN last.results[i] = DOMAIN feature_names
              /\ \A j \in DOMAIN feature_names :
                    last.results[i][j]
                       = ValueOrZero(last.data[i], feature_names[j])
                            * WeightOrOne(config, feature_names[j])

\* a snapshot with a missing metric and a key outside the list was vectorised
\* under a configuration that weights some metrics and not others: the row has
\* a 0 for the missing metric, a weighted and a default-weighted entry
C21_Witness ==
    /\ last.op = "features"
    /\ Len(last.data) = 2
    /\ last.data[1] = SnapPartial
    /\ last.data[2] = SnapNormal
    /\ config = _get_default_config
    /\ last.results[1][1] = 0
    /\ last.results[1][3] = 75 * 12
    /\ last.results[2][9] = 98 * 10
    /\ Len(last.results[1]) = Len(CanonicalFeatureNames)

\* the group of a message: 1 score band, 2 metric-specific, 3 correlation
InsightGroup(msg) ==
    IF msg \in {"score_critical", "score_significant", "score_moderate"} THEN 1
    ELSE IF msg \in {"correlation_errors_latency", "resource_exhaustion"} THEN 3
    ELSE 2

\* the message of the band a score falls in, if any
BandMessage(score) ==
    IF score < -70 THEN << "score_critical" >>
    ELSE IF score < -50 THEN << "score_significant" >>
    ELSE IF score < -30 THEN << "score_moderate" >>
    ELSE << >>

\* C22: the insights are ordered by group: the score-banded message (at most
\* one, that of the band of the score) first, then the metric-specific
\* messages, then the correlation messages; no message of a later group stands
\* before one of an earlier group.
C22_InsightsOrdered ==
    last.op = "insights" =>
        LET ins == last.results
        IN  /\ \A i, j \in DOMAIN ins :
                  i < j => InsightGroup(ins[i]) <= InsightGroup(ins[j])
            /\ SelectSeq(ins, LAMBDA msg : InsightGroup(msg) = 1) = BandMessage(last.data[2])
            /\ Len(BandMessage(last.data[2])) <= 1

\* insights with a score-banded message, two metric-specific messages and
\* both correlation messages
C22_Witness ==
    /\ last.op = "insights"
    /\ Len(last.results) = 5
    /\ InsightGroup(last.results[1]) = 1
    /\ InsightGroup(last.results[2]) = 2
    /\ InsightGroup(last.results[3]) = 2
    /\ InsightGroup(last.results[4]) = 3
    /\ InsightGroup(last.results[5]) = 3

\* how often a message stands in the insights
Occurrences(ins, msg) == Cardinality({ i \in DOMAIN ins : ins[i] = msg })

\* the snapshot holds the metric
Has(metrics, name) == \E k \in DOMAIN metrics : metrics[k][1] = name

\* the condition of each metric-specific and each correlation rule on a snapshot
RuleHolds(metrics, msg) ==
    CASE msg = "response_time_critical" ->
            Has(metrics, "response_time") /\ ValueOrZero(metrics, "response_time") > 3000
      [] msg = "error_rate_high" ->
            Has(metrics, "error_rate") /\ ValueOrZero(metrics, "error_rate") > 10
      [] msg = "memory_critical" ->
            Has(metrics, "memory_usage") /\ ValueOrZero(metrics, "memory_usage") > 90
      [] msg = "cpu_critical" ->
            Has(metrics, "cpu_usage") /\ ValueOrZero(metrics, "cpu_usage") > 85
      [] msg = "document_failures_high" ->
            /\ Has(metrics, "document_processing_success_rate")
            /\ ValueOrZero(metrics, "document_processing_success_rate") < 90
      [] msg = "correlation_errors_latency" ->
            /\ ValueOrZero(metrics, "error_rate") > 5
            /\ ValueOrZero(metrics, "response_time") > 2000
      [] msg = "resource_exhaustion" ->
            /\ ValueOrZero(metrics, "memory_usage") > 80
            /\ ValueOrZero(metrics, "cpu_usage") > 70

RuleMessages ==
    {"response_time_critical", "error_rate_high", "memory_critical", "cpu_critical",
     "document_failures_high", "correlation_errors_latency", "resource_exhaustion"}

\* C23: no insight rule suppresses another: each metric-specific message and
\* each correlation message stands exactly once in the insights when its
\* condition holds on the snapshot and not at all otherwise, whatever the score
\* band and whichever other rules fire.
C23_RulesIndependent ==
    last.op = "insights" =>
        \A msg \in RuleMessages :
            Occurrences(last.results, msg)
               = IF RuleHolds(last.data[1], msg) THEN 1 ELSE 0

\* every rule fired on one snapshot, under a score band: all seven messages
\* stand once
C23_Witness ==
    /\ last.op = "insights"
    /\ \A msg \in RuleMessages : RuleHolds(last.data[1], msg)
    /\ last.data[2] < -70
    /\ Len(last.results) = 8

\* C24: every record of affected_metrics is tagged HIGH when its deviation
\* percentage is > 50, MEDIUM when it is > 25 and <= 50, and LOW otherwise; a
\* deviation of exactly 50 is MEDIUM and one of exactly 25 is LOW.
C24_DeviationTags ==
    last.op = "affected" =>
        \A i \in DOMAIN last.results :
            LET dev == last.results[i].deviation_percentage
                tag == last.results[i].severity
            IN  /\ tag \in {"HIGH", "MEDIUM", "LOW"}
                /\ (tag = "HIGH") <=> (dev.num > 50 * dev.den)
                /\ (tag = "MEDIUM") <=> (dev.num > 25 * dev.den /\ dev.num <= 50 * dev.den)
                /\ (dev.num = 50 * dev.den) => tag = "MEDIUM"
                /\ (dev.num = 25 * dev.den) => tag = "LOW"

\* memory_usage of 120 (exactly 50 percent above 80) was tagged MEDIUM and a
\* response_time of 2500 (exactly 25 percent above 2000) LOW
C24_Witness ==
    /\ last.op = "affected"
    /\ last.data[1] = << << "memory_usage", 120 >>, << "response_time", 2500 >> >>
    /\ Len(last.results) = 2
    /\ last.results[1].deviation_percentage = [num |-> 4000, den |-> 80]
    /\ last.results[1].severity = "MEDIUM"
    /\ last.results[2].deviation_percentage = [num |-> 50000, den |-> 2000]
    /\ last.results[2].severity = "LOW"

\* C25: with thresholds produced by calibration, _determine_severity returns
\* only CRITICAL or NORMAL, for every score array calibrated on and every
\* score: the tiers HIGH, MEDIUM and LOW are unreachable.
C25_OnlyCriticalOrNormal ==
    (last.op = "severity" /\ ThresholdNames \subseteq DOMAIN thresholds) =>
        last.results[1] \in {"CRITICAL", "NORMAL"}

\* with four distinct calibrated thresholds, a score above the low threshold
\* and below the high one was classified CRITICAL
C25_Witness ==
    /\ last.op = "severity"
    /\ ThresholdNames \subseteq DOMAIN thresholds
    /\ \A n, m \in ThresholdNames : n # m => thresholds[n] # thresholds[m]
    /\ last.data[1] * 100 > thresholds["low"]
    /\ last.data[1] * 100 < thresholds["high"]
    /\ last.results[1] = "CRITICAL"

\* C26: a train_on_historical_data call that raises on an engine that was
\* already trained leaves the model, the scaler, the thresholds and the trained
\* flag as they were before the call, and detect_anomalies gives afterwards
\* what it gave before for every snapshot.
C26_FailedTrainKeepsModel ==
    [][ (last'.op = "train" /\ last'.status = "error" /\ is_trained) =>
           /\ model' = model
           /\ scaler' = scaler
           /\ thresholds' = thresholds
           /\ is_trained' = is_trained
           /\ \A metrics \in DetectSnapshots :
                 DetectOutcome(detect_anomalies(Mem', config', Files', metrics))
                    = DetectOutcome(detect_anomalies(Mem, config, Files, metrics)) ]_vars

\* C27: a load that fails leaves the engine's memory as it was: when a detect
\* of an untrained engine tried to load and the load raised, the model, the
\* scaler, the feature-name list and the thresholds are those from before the
\* attempt, none being partially replaced.
C27_FailedLoadKeepsMemory ==
    [][ (last'.op = "detect" /\ last'.loaded = "failed") =>
           /\ model' = model
           /\ scaler' = scaler
           /\ feature_names' = feature_names
           /\ thresholds' = thresholds ]_vars

\* C28: the three persisted artifacts are mutually consistent in every
\* reachable state, also after a save that failed part-way: whenever a fresh
\* engine can load them, they are the files of one save, so the model, the
\* scaler, the feature names and the thresholds it gets are those one engine
\* held together at the end of one train or update.
C28_ArtifactsConsistent ==
    LET load == _load_trained_model(InitMem, Files)
    IN  ~load.raised =>
            /\ saved_by.valid
            /\ load.st.model = saved_by.mem.model
            /\ load.st.scaler = saved_by.mem.scaler
            /\ load.st.feature_names = saved_by.mem.feature_names
            /\ load.st.thresholds = saved_by.mem.thresholds

\* C29: update_model with retrain=false on an engine that is not trained (no
\* train and no load has succeeded in it) does not try to load the persisted
\* model; it raises, and leaves the thresholds and the three files unchanged.
C29_UpdateUntrainedFails ==
    [][ (last'.op = "update" /\ ~last'.retrain /\ ~is_trained) =>
           /\ last'.loaded = "none"
           /\ last'.status = "error"
           /\ last'.saved = "none"
           /\ thresholds' = thresholds
           /\ Files' = Files ]_vars

\* the names of the stages started, in the order of their start
Started == SelectSeq(pipeline.trace, LAMBDA ev : ev[1] = "start")

\* a stage has raised
StageFailed == \E i \in DOMAIN pipeline.trace : pipeline.trace[i][1] = "fail"

\* the stage that raised
FailedStage ==
    pipeline.trace[CHOOSE i \in DOMAIN pipeline.trace : pipeline.trace[i][1] = "fail"][2]

====
